---- MODULE Spec2Model ----
(***************************************************************************)
(* The streaming task pipeline of the transcription server: the task       *)
(* registry (TaskManager), the orchestrator thread                         *)
(* (VideoProcessor.process_video_with_streaming), the transcription        *)
(* producer thread, the translation consumer-producer thread, the         *)
(* streaming boundary (stream_transcription_results) and the /cancel and   *)
(* /cleanup endpoints, for one task.                                       *)
(*                                                                         *)
(* Python objects that outlive their registry entry (Queue, Event) are     *)
(* modelled by identity: the registry maps the task to an object id, and   *)
(* every thread keeps the id it was handed.                                *)
(***************************************************************************)
EXTENDS Integers, Sequences, FiniteSets, TLC

\* ------------------------------------------------------------------ bounds
\* Largest number of records the transcriber yields for the task.
MaxRecords == 2

\* Capacity of the client output queue (100 in the source, scaled down so
\* that a full queue is reachable).
DEFAULT_OUTPUT_QUEUE_SIZE == 2

\* Capacity of the transcription -> translation queue (50 in the source,
\* scaled down likewise).
DEFAULT_TRANSCRIPTION_QUEUE_SIZE == 1

\* ------------------------------------------------------------------ values
NoEntry == 0
\* A registry entry is created at most twice: by the route handler and, if a
\* cleanup removed it in between, again by the orchestrator.
ObjIds == {1, 2}

STOP_SIGNAL == [status |-> "stop", index |-> -1, text |-> ""]

\* segment_data built by the producer for the record with index i.
segment_data(i) == [status |-> "none", index |-> i, text |-> "text"]

\* A status record ({"status": s, "message": m}); i is its "index" field when
\* it has one and -1 otherwise.
StatusRecord(s, m, i) == [status |-> s, index |-> i, text |-> m]

IsStatus(item) == item.status \in {"error", "cancelled"}
IsResult(item) == item.status = "none"

VARIABLES
    segment_queues,     \* TaskManager.segment_queues[task_id]: a queue id or NoEntry
    cancel_events,      \* TaskManager.cancel_events[task_id]: an event id or NoEntry
    cancel_events_lock, \* holder of TaskManager.cancel_events_lock, or "free"
    allocated,          \* number of (Queue, Event) objects created so far
    queue,              \* contents of each client output Queue object
    event,              \* state of each threading.Event object
    tq,                 \* contents of transcription_to_translation_queue
    enable_translation, \* the request's form field
    nRecords,           \* number of records the transcriber yields if left alone
    rpc,                \* route handler: "start" | "streaming"
    opc,                \* orchestrator position
    o_queue,            \* orchestrator's client_output_queue (object id)
    o_event,            \* orchestrator's cancel_event (object id)
    audio_data_np,      \* "unset" | "loaded" | "empty" (length 0) | "None"
    output_folder,      \* TRUE while temp/<task_id> exists
    ppc,                \* producer position
    segment_idx_counter,
    tpc,                \* translation worker position
    segment_to_translate, \* item the translation worker holds
    bpc,                \* streaming boundary position
    lines,              \* lines the boundary has yielded, in order
    ended,              \* how the boundary loop was left
    epc,                \* /cleanup endpoint position
    hist                \* history: what has happened so far (not program state)

vars == <<segment_queues, cancel_events, cancel_events_lock, allocated, queue,
          event, tq, enable_translation, nRecords, rpc, opc, o_queue, o_event,
          audio_data_np, output_folder, ppc, segment_idx_counter, tpc,
          segment_to_translate, bpc, lines, ended, epc, hist>>

\* The components beside the pipeline, each with a specification of its own.
VARIABLES
    whisper_model,      \* ModelManager.whisper_model: a model handle, or 0 for None
    current_config,     \* ModelManager.current_config: a configuration, or 0 for None
    models_loaded,      \* number of load_whisper_model calls that returned a model
    gpc,                \* get_model: position of each calling thread
    g_config,           \* get_model: the config argument of each calling thread
    g_model,            \* get_model: the model load_whisper_model handed the thread
    g_result,           \* get_model: what the thread's latest call returned (0: nothing yet)
    g_calls,            \* get_model: calls each thread has made
    g_requested         \* configurations get_model has been called with so far

managerVars == <<whisper_model, current_config, models_loaded, gpc, g_config,
                 g_model, g_result, g_calls, g_requested>>

\* Everything that is not the pipeline of one task.
\* TranscriptionClient.start_server_if_needed, one call.
VARIABLES
    hpc,                  \* position: "idle" | "get" | "last_attempt" | "returned" | "raised"
    transcription_server, \* TRUE when the client was given a server to start
    server_started,       \* transcription_server.start() was called
    attempt,              \* the loop variable
    status_code,          \* of the latest health response; 0 when there is none
    health_requests,      \* GET /health requests made
    sleeps                \* sleep(1) calls made

clientVars == <<hpc, transcription_server, server_started, attempt, status_code,
                health_requests, sleeps>>

\* create_segment_jobs, one call.  Times are in units of the rounding step.
VARIABLES
    jpc,            \* position: "call" | "loop" | "returned"
    silent_points,  \* the argument: a list of break points
    video_duration, \* the argument
    points,         \* [0.0] + silent_points + [video_duration]
    idx,            \* the loop variable
    jobs            \* the list being built: <<start, end, idx>> tuples

segVars == <<jpc, silent_points, video_duration, points, idx, jobs>>

\* TranscriptionServer.stop and the registry of all tasks.
VARIABLES
    registered,  \* keys of TaskManager.cancel_events, in insertion order
    flag_set,    \* is_set() of each task's registered Event
    submitted,   \* tasks for which POST /transcribe was served
    orch,        \* each task's orchestrator thread:
                 \* "none" | "start" | "running" | "done"
    dpc,         \* DELETE /cleanup handler per task: "idle" | "cleanup_task"
    stop_pc,     \* stop(): "idle" | "cancel" | "returned"
    task_ids,    \* the snapshot _cancel_all_tasks took
    stop_idx     \* number of task_ids it has dealt with

stopVars == <<registered, flag_set, submitted, orch, dpc, stop_pc, task_ids,
              stop_idx>>

\* TranscriptionWorkerAPI (the client's worker thread), one run.
VARIABLES
    wpc,             \* position of run()
    _is_running,     \* the attribute stop() clears
    response_lines,  \* lines of the response not yet read
    line,            \* the line the loop body holds
    response_closed, \* stop() closed the response
    stop_called,     \* stop() was called
    status_received, \* the status line the loop body handled: "none" at first
    finished_emits,  \* finished.emit calls made
    error_emits      \* error.emit calls made

workerVars == <<wpc, _is_running, response_lines, line, response_closed,
                stop_called, status_received, finished_emits, error_emits>>

\* Whether the history of a run is kept in full (not program state; no
\* action changes it).
VARIABLES keep_history

extVars == <<managerVars, clientVars, segVars, stopVars, workerVars,
             keep_history>>

\* An update of the history: in a run that keeps no history only the two
\* fields the producer reads back are updated (whether the transcriber
\* raised, and whether the producer has put its STOP_SIGNAL).
Record(h) ==
    IF keep_history
    THEN h
    ELSE [hist EXCEPT !.raised = h.raised, !.prodStops = h.prodStops]

\* What the actions of each component leave alone.
notManager ==
    <<vars, clientVars, segVars, stopVars, workerVars, keep_history>>
notClient ==
    <<vars, managerVars, segVars, stopVars, workerVars, keep_history>>
notSeg ==
    <<vars, managerVars, clientVars, stopVars, workerVars, keep_history>>
notStop ==
    <<vars, managerVars, clientVars, segVars, workerVars, keep_history>>
notWorker ==
    <<vars, managerVars, clientVars, segVars, stopVars, keep_history>>

regVars == <<segment_queues, cancel_events, cancel_events_lock, allocated>>
orchVars == <<opc, o_queue, o_event, audio_data_np, output_folder>>
prodVars == <<ppc, segment_idx_counter>>
transVars == <<tpc, segment_to_translate>>
boundVars == <<bpc, lines, ended>>
inputVars == <<enable_translation, nRecords>>

\* ------------------------------------------------------------ queue.Queue
\* Queue.put_nowait on a queue of capacity cap: the item is appended, or
\* queue.Full is raised and the contents stay as they are (every caller
\* catches it).
put_nowait(q, cap, item) == IF Len(q) < cap THEN Append(q, item) ELSE q

\* Queue.put (blocking, no timeout) can complete only while the queue has room.
CanPut(q, cap) == Len(q) < cap

\* ------------------------------------------------------------ TaskManager
\* is_cancelled reading an Event created for the task whether the registry
\* still holds it or not.
is_cancelled_unregistered == \E i \in ObjIds : i <= allocated /\ event[i]

\* is_cancelled: cancel_events.get(task_id, Event()).is_set(), without the lock.
is_cancelled == cancel_events # NoEntry /\ event[cancel_events]

\* cancel_task leaving the task's Event as it is.
cancel_task_not_set == event

\* cancel_task setting every Event there is, registered or not.
cancel_task_every_event == [i \in ObjIds |-> TRUE]

\* cancel_task, the effect on the Event objects (the caller holds the lock
\* for the duration of the call).
cancel_task_events ==
    IF cancel_events # NoEntry
    THEN [event EXCEPT ![cancel_events] = TRUE]
    ELSE event

\* register_task creating a fresh Event and Queue on every call.
register_task_always_new(caller) ==
    /\ cancel_events_lock = "free"
    /\ allocated < 2
    /\ cancel_events' = allocated + 1
    /\ segment_queues' = allocated + 1
    /\ allocated' = allocated + 1
    /\ UNCHANGED cancel_events_lock

\* register_task filling the maps without taking the lock.
register_task_unlocked(caller) ==
    /\ cancel_events' = IF cancel_events = NoEntry THEN allocated + 1 ELSE cancel_events
    /\ segment_queues' = IF segment_queues = NoEntry THEN allocated + 1 ELSE segment_queues
    /\ allocated' = IF cancel_events = NoEntry \/ segment_queues = NoEntry
                    THEN allocated + 1 ELSE allocated
    /\ UNCHANGED cancel_events_lock

\* register_task, the part under the lock: an Event and a Queue are created
\* for the task when the registry has none.
register_task(caller) ==
    /\ cancel_events_lock = "free"
    /\ cancel_events' = IF cancel_events = NoEntry THEN allocated + 1 ELSE cancel_events
    /\ segment_queues' = IF segment_queues = NoEntry THEN allocated + 1 ELSE segment_queues
    /\ allocated' = IF cancel_events = NoEntry \/ segment_queues = NoEntry
                    THEN allocated + 1 ELSE allocated
    /\ UNCHANGED cancel_events_lock

\* cleanup_task, first half: the lock is taken and the task's Event is removed
\* from cancel_events.
cleanup_task_events(caller) ==
    /\ cancel_events_lock = "free"
    /\ cancel_events_lock' = caller
    /\ cancel_events' = NoEntry
    /\ UNCHANGED <<segment_queues, allocated, queue, event>>

\* cleanup_task leaving the task's queue in segment_queues.
cleanup_task_queue_keeps_entry(caller) ==
    /\ cancel_events_lock = caller
    /\ queue' = IF segment_queues # NoEntry
                THEN [queue EXCEPT ![segment_queues] =
                        put_nowait(@, DEFAULT_OUTPUT_QUEUE_SIZE, STOP_SIGNAL)]
                ELSE queue
    /\ cancel_events_lock' = "free"
    /\ UNCHANGED <<segment_queues, cancel_events, allocated, event>>

\* cleanup_task putting STOP_SIGNAL with a blocking put.
cleanup_task_queue_blocking(caller) ==
    /\ cancel_events_lock = caller
    /\ segment_queues # NoEntry =>
          CanPut(queue[segment_queues], DEFAULT_OUTPUT_QUEUE_SIZE)
    /\ queue' = IF segment_queues # NoEntry
                THEN [queue EXCEPT ![segment_queues] = Append(@, STOP_SIGNAL)]
                ELSE queue
    /\ segment_queues' = NoEntry
    /\ cancel_events_lock' = "free"
    /\ UNCHANGED <<cancel_events, allocated, event>>

\* cleanup_task, second half: STOP_SIGNAL is offered to the task's queue
\* (dropped when it is full), the queue is removed from segment_queues and
\* the lock is released.
cleanup_task_queue(caller) ==
    /\ cancel_events_lock = caller
    /\ queue' = IF segment_queues # NoEntry
                THEN [queue EXCEPT ![segment_queues] =
                        put_nowait(@, DEFAULT_OUTPUT_QUEUE_SIZE, STOP_SIGNAL)]
                ELSE queue
    /\ segment_queues' = NoEntry
    /\ cancel_events_lock' = "free"
    /\ UNCHANGED <<cancel_events, allocated, event>>

\* ----------------------------------------------------------- ModelManager
\* Threads that call get_model (one orchestrator thread per task), the
\* configurations they pass and the calls each makes.
Callers == {1, 2}
Configs == {1, 2}
MaxCalls == 2

ModelManagerInit ==
    /\ whisper_model = 0
    /\ current_config = 0
    /\ models_loaded = 0
    /\ gpc = [c \in Callers |-> "idle"]
    /\ g_config = [c \in Callers |-> 0]
    /\ g_model = [c \in Callers |-> 0]
    /\ g_result = [c \in Callers |-> 0]
    /\ g_calls = [c \in Callers |-> 0]
    /\ g_requested = {}

\* A thread calls get_model(config).
G_call(c) ==
    /\ gpc[c] = "idle"
    /\ g_calls[c] < MaxCalls
    /\ \E config \in Configs :
          /\ g_config' = [g_config EXCEPT ![c] = config]
          /\ g_requested' = g_requested \cup {config}
    /\ g_calls' = [g_calls EXCEPT ![c] = @ + 1]
    /\ gpc' = [gpc EXCEPT ![c] = "test"]
    /\ UNCHANGED <<whisper_model, current_config, models_loaded, g_model, g_result>>
    /\ UNCHANGED notManager

\* Line 16: if self.whisper_model is None or self.current_config != config.
G_test(c) ==
    /\ gpc[c] = "test"
    /\ gpc' = [gpc EXCEPT ![c] =
                 IF whisper_model = 0 \/ current_config # g_config[c]
                 THEN "load" ELSE "return"]
    /\ UNCHANGED <<whisper_model, current_config, models_loaded, g_config,
                   g_model, g_result, g_calls, g_requested>>
    /\ UNCHANGED notManager

\* Line 18, right-hand side: load_whisper_model(config) builds a new model,
\* or raises and the call ends.
G_load(c) ==
    /\ gpc[c] = "load"
    /\ \E ok \in BOOLEAN :
          IF ok
          THEN /\ models_loaded' = models_loaded + 1
               /\ g_model' = [g_model EXCEPT ![c] = models_loaded + 1]
               /\ gpc' = [gpc EXCEPT ![c] = "store_model"]
          ELSE /\ gpc' = [gpc EXCEPT ![c] = "idle"]
               /\ UNCHANGED <<models_loaded, g_model>>
    /\ UNCHANGED <<whisper_model, current_config, g_config, g_result, g_calls,
                   g_requested>>
    /\ UNCHANGED notManager

\* Line 18, the assignment: self.whisper_model = <the new model>.
G_store_model(c) ==
    /\ gpc[c] = "store_model"
    /\ whisper_model' = g_model[c]
    /\ gpc' = [gpc EXCEPT ![c] = "store_config"]
    /\ UNCHANGED <<current_config, models_loaded, g_config, g_model, g_result,
                   g_calls, g_requested>>
    /\ UNCHANGED notManager

\* Line 19: self.current_config = config.
G_store_config(c) ==
    /\ gpc[c] = "store_config"
    /\ current_config' = g_config[c]
    /\ gpc' = [gpc EXCEPT ![c] = "return"]
    /\ UNCHANGED <<whisper_model, models_loaded, g_config, g_model, g_result,
                   g_calls, g_requested>>
    /\ UNCHANGED notManager

\* Line 23: return self.whisper_model (the attribute, read again).
G_return(c) ==
    /\ gpc[c] = "return"
    /\ g_result' = [g_result EXCEPT ![c] = whisper_model]
    /\ gpc' = [gpc EXCEPT ![c] = "idle"]
    /\ UNCHANGED <<whisper_model, current_config, models_loaded, g_config,
                   g_model, g_calls, g_requested>>
    /\ UNCHANGED notManager

get_model(c) ==
    \/ G_call(c) \/ G_test(c) \/ G_load(c)
    \/ G_store_model(c) \/ G_store_config(c) \/ G_return(c)

\* Two threads calling get_model, each up to MaxCalls times.
ModelManagerNext == \E c \in Callers : get_model(c)

\* The components beside the pipeline at rest.
\* ------------------------------ TranscriptionClient.start_server_if_needed
\* utils/config.py: the number of health requests the client makes.
SERVER_START_MAX_ATTEMPTS == 30

\* Status codes a health response can carry: 200, or anything else.
StatusCodes == {200, 503}

ClientInit ==
    /\ hpc = "idle"
    /\ transcription_server = FALSE
    /\ server_started = FALSE
    /\ attempt = 0
    /\ status_code = 0
    /\ health_requests = 0
    /\ sleeps = 0

\* Lines 26-32: without a server to start the method returns at once;
\* otherwise the server is started and the loop begins with attempt 0.
H_call ==
    /\ hpc = "idle"
    /\ \E given \in BOOLEAN :
         /\ transcription_server' = given
         /\ server_started' = given
         /\ hpc' = IF ~given THEN "returned"
                   ELSE IF 0 < SERVER_START_MAX_ATTEMPTS THEN "get" ELSE "returned"
    /\ UNCHANGED <<attempt, status_code, health_requests, sleeps>>
    /\ UNCHANGED notClient

\* Lines 33-41: one GET /health with its timeout.  A response with status
\* 200 returns; another status falls through; a RequestException (refused
\* connection, timeout) is caught and followed by sleep(1).
H_get ==
    /\ hpc = "get"
    /\ health_requests' = health_requests + 1
    /\ \/ \E code \in StatusCodes :
            /\ status_code' = code
            /\ hpc' = IF code = 200 THEN "returned" ELSE "last_attempt"
            /\ UNCHANGED sleeps
       \/ /\ status_code' = 0
          /\ sleeps' = sleeps + 1
          /\ hpc' = "last_attempt"
    /\ UNCHANGED <<transcription_server, server_started, attempt>>
    /\ UNCHANGED notClient

\* The test at the end of the loop body comparing attempt with
\* SERVER_START_MAX_ATTEMPTS, so that it never raises.
H_last_attempt_off_by_one ==
    /\ hpc = "last_attempt"
    /\ IF attempt = SERVER_START_MAX_ATTEMPTS
       THEN hpc' = "raised" /\ UNCHANGED attempt
       ELSE IF attempt + 1 < SERVER_START_MAX_ATTEMPTS
            THEN hpc' = "get" /\ attempt' = attempt + 1
            ELSE hpc' = "returned" /\ UNCHANGED attempt
    /\ UNCHANGED <<transcription_server, server_started, status_code,
                   health_requests, sleeps>>
    /\ UNCHANGED notClient

\* Lines 42-43 and the loop header: the last attempt raises RuntimeError,
\* any other goes on to the next value of range(SERVER_START_MAX_ATTEMPTS).
H_last_attempt ==
    /\ hpc = "last_attempt"
    /\ IF attempt = SERVER_START_MAX_ATTEMPTS - 1
       THEN hpc' = "raised" /\ UNCHANGED attempt
       ELSE IF attempt + 1 < SERVER_START_MAX_ATTEMPTS
            THEN hpc' = "get" /\ attempt' = attempt + 1
            ELSE hpc' = "returned" /\ UNCHANGED attempt
    /\ UNCHANGED <<transcription_server, server_started, status_code,
                   health_requests, sleeps>>
    /\ UNCHANGED notClient

start_server_if_needed ==
    \/ H_call
    \/ H_get
    \/ H_last_attempt

\* ----------------------------------- audio/segmentation.py: segment jobs
\* Longest video and longest list of break points the inputs are drawn from.
MaxDuration == 4
MaxPoints == 3

\* The lists of at most MaxPoints break points below d, in ascending order;
\* the point 0 and repeated points are among them.
SortedPoints(d) ==
    {p \in UNION {[1..n -> 0..(d - 1)] : n \in 0..MaxPoints} :
        \A i \in 1..(Len(p) - 1) : p[i] <= p[i + 1]}

\* A call that is about to be made, with arguments of the stated kind.
SegmentInputs ==
    /\ jpc = "call"
    /\ video_duration \in 1..MaxDuration
    /\ silent_points \in SortedPoints(video_duration)
    /\ points = <<>>
    /\ idx = 0
    /\ jobs = <<>>

\* The call the component is at rest with: no break point, duration 1.
SegmentIdle ==
    /\ jpc = "call"
    /\ video_duration = 1
    /\ silent_points = <<>>
    /\ points = <<>>
    /\ idx = 0
    /\ jobs = <<>>

\* Lines 62-63: points = [0.0] + silent_points + [video_duration]; jobs = [].
J_call ==
    /\ jpc = "call"
    /\ points' = <<0>> \o silent_points \o <<video_duration>>
    /\ jobs' = <<>>
    /\ idx' = 0
    /\ jpc' = "loop"
    /\ UNCHANGED <<silent_points, video_duration>>
    /\ UNCHANGED notSeg

\* Lines 64-68: one iteration of 'for idx in range(len(points) - 1)'; points
\* is indexed from 0 in the source and from 1 here.
J_iterate ==
    /\ jpc = "loop"
    /\ idx < Len(points) - 1
    /\ LET start == points[idx + 1]
           end == points[idx + 2]
       IN jobs' = IF start < end THEN Append(jobs, <<start, end, idx>>) ELSE jobs
    /\ idx' = idx + 1
    /\ UNCHANGED <<jpc, silent_points, video_duration, points>>
    /\ UNCHANGED notSeg

\* Lines 69-74: the loop is over; jobs is returned.
J_return ==
    /\ jpc = "loop"
    /\ idx >= Len(points) - 1
    /\ jpc' = "returned"
    /\ UNCHANGED <<silent_points, video_duration, points, idx, jobs>>
    /\ UNCHANGED notSeg

create_segment_jobs ==
    \/ J_call
    \/ J_iterate
    \/ J_return

\* --------------------------------- server.py: TranscriptionServer.stop
\* Task ids of the requests the server gets.
Tasks == {"a", "b"}

IsRegistered(t) == \E k \in 1..Len(registered) : registered[k] = t

\* The keys that are left when task t is deleted.
Without(ids, t) == SelectSeq(ids, LAMBDA x : x # t)

StopInit ==
    /\ registered = <<>>
    /\ flag_set = [t \in Tasks |-> FALSE]
    /\ submitted = [t \in Tasks |-> FALSE]
    /\ orch = [t \in Tasks |-> "none"]
    /\ dpc = [t \in Tasks |-> "idle"]
    /\ stop_pc = "idle"
    /\ task_ids = <<>>
    /\ stop_idx = 0

\* TaskManager.register_task(t), the block under the lock: a missing task
\* gets a new, unset Event (and a new Queue).
register_task_of(t) ==
    IF IsRegistered(t)
    THEN UNCHANGED <<registered, flag_set>>
    ELSE /\ registered' = Append(registered, t)
         /\ flag_set' = [flag_set EXCEPT ![t] = FALSE]

\* TaskManager.cancel_task(t): the Event of a registered task is set.
cancel_task_of(t) ==
    /\ flag_set' = IF IsRegistered(t) THEN [flag_set EXCEPT ![t] = TRUE] ELSE flag_set
    /\ UNCHANGED registered

\* TaskManager.cleanup_task(t): the task's entries are deleted.
cleanup_task_of(t) ==
    /\ registered' = Without(registered, t)
    /\ flag_set' = [flag_set EXCEPT ![t] = FALSE]

\* routes.py, POST /transcribe for a new task id: the handler registers the
\* task and starts its orchestrator thread.
R_transcribe(t) ==
    /\ ~submitted[t]
    /\ submitted' = [submitted EXCEPT ![t] = TRUE]
    /\ register_task_of(t)
    /\ orch' = [orch EXCEPT ![t] = "start"]
    /\ UNCHANGED <<dpc, stop_pc, task_ids, stop_idx>>
    /\ UNCHANGED notStop

\* VideoProcessor.process_video_with_streaming, lines 188-189: the
\* orchestrator thread's own register_task.
R_orch_register(t) ==
    /\ orch[t] = "start"
    /\ register_task_of(t)
    /\ orch' = [orch EXCEPT ![t] = "running"]
    /\ UNCHANGED <<submitted, dpc, stop_pc, task_ids, stop_idx>>
    /\ UNCHANGED notStop

\* The orchestrator's finally clause, lines 293-314: cleanup_task.
R_orch_finally(t) ==
    /\ orch[t] = "running"
    /\ cleanup_task_of(t)
    /\ orch' = [orch EXCEPT ![t] = "done"]
    /\ UNCHANGED <<submitted, dpc, stop_pc, task_ids, stop_idx>>
    /\ UNCHANGED notStop

\* routes.py, DELETE /cleanup/{t}, lines 149-151: cancel_task unless the task
\* reads as cancelled.
R_cleanup_cancel(t) ==
    /\ submitted[t]
    /\ dpc[t] = "idle"
    /\ cancel_task_of(t)
    /\ dpc' = [dpc EXCEPT ![t] = "cleanup_task"]
    /\ UNCHANGED <<submitted, orch, stop_pc, task_ids, stop_idx>>
    /\ UNCHANGED notStop

\* The same handler, line 168: cleanup_task.
R_cleanup_task(t) ==
    /\ dpc[t] = "cleanup_task"
    /\ cleanup_task_of(t)
    /\ dpc' = [dpc EXCEPT ![t] = "idle"]
    /\ UNCHANGED <<submitted, orch, stop_pc, task_ids, stop_idx>>
    /\ UNCHANGED notStop

\* _cancel_all_tasks, lines 107-112: the snapshot of the keys under the lock;
\* with no task the method returns.
S_snapshot ==
    /\ stop_pc = "idle"
    /\ task_ids' = registered
    /\ stop_idx' = 0
    /\ stop_pc' = IF registered = <<>> THEN "returned" ELSE "cancel"
    /\ UNCHANGED <<registered, flag_set, submitted, orch, dpc>>
    /\ UNCHANGED notStop

\* Lines 117-122: cancel_task for the next id of the snapshot.
S_cancel_task ==
    /\ stop_pc = "cancel"
    /\ stop_idx < Len(task_ids)
    /\ cancel_task_of(task_ids[stop_idx + 1])
    /\ stop_idx' = stop_idx + 1
    /\ UNCHANGED <<submitted, orch, dpc, stop_pc, task_ids>>
    /\ UNCHANGED notStop

\* The loop is over; stop logs (lines 92-103) and returns.
S_return ==
    /\ stop_pc = "cancel"
    /\ stop_idx = Len(task_ids)
    /\ stop_pc' = "returned"
    /\ UNCHANGED <<registered, flag_set, submitted, orch, dpc, task_ids, stop_idx>>
    /\ UNCHANGED notStop

stop ==
    \/ S_snapshot
    \/ S_cancel_task
    \/ S_return

StopNext ==
    \/ stop
    \/ \E t \in Tasks :
         \/ R_transcribe(t)
         \/ R_orch_register(t)
         \/ R_orch_finally(t)
         \/ R_cleanup_cancel(t)
         \/ R_cleanup_task(t)

\* ------------------------------ TranscriptionWorkerAPI.run and stop
\* Most result lines a response carries.
MaxLines == 2

\* What the server streams: result lines, then at most one status line,
\* after which it closes the stream.
Responses ==
    {[k \in 1..n |-> "segment"] \o tail :
        n \in 0..MaxLines, tail \in {<<>>, <<"cancelled">>, <<"error">>}}

WorkerInit ==
    /\ wpc = "upload"
    /\ _is_running = TRUE
    /\ response_lines = <<>>
    /\ line = "none"
    /\ response_closed = FALSE
    /\ stop_called = FALSE
    /\ status_received = "none"
    /\ finished_emits = 0
    /\ error_emits = 0

\* The upload.  src/TranscriptionWorkerAPI.py, lines 64-99: the POST returns
\* a streaming response with status 200, or another status (error.emit and
\* return), or raises.  services/TranscriptionWorkerAPI.py, lines 40-50,
\* calls upload_video with eight arguments where TranscriptionClient takes
\* four: TypeError, caught by the except clause of run.
W_upload ==
    /\ wpc = "upload"
    /\ \/ \E r \in Responses :
            /\ response_lines' = r
            /\ wpc' = "iter"
            /\ UNCHANGED error_emits
       \/ /\ error_emits' = error_emits + 1
          /\ wpc' = "finally"
          /\ UNCHANGED response_lines
       \/ /\ wpc' = "except"
          /\ UNCHANGED <<response_lines, error_emits>>
    /\ UNCHANGED <<_is_running, line, response_closed, stop_called,
                   status_received, finished_emits>>
    /\ UNCHANGED notWorker

\* 'for line in self.response.iter_lines()': the next line, or the end of
\* the stream; on a response that stop() closed the iterator ends or raises.
W_iter ==
    /\ wpc = "iter"
    /\ \/ /\ ~response_closed
          /\ IF response_lines = <<>>
             THEN wpc' = "after_loop" /\ UNCHANGED <<line, response_lines>>
             ELSE /\ line' = Head(response_lines)
                  /\ response_lines' = Tail(response_lines)
                  /\ wpc' = "loop_body"
       \/ /\ response_closed
          /\ wpc' \in {"after_loop", "except"}
          /\ UNCHANGED <<line, response_lines>>
    /\ UNCHANGED <<_is_running, response_closed, stop_called, status_received,
                   finished_emits, error_emits>>
    /\ UNCHANGED notWorker

\* src/TranscriptionWorkerAPI.py, lines 102-120 and 141: 'if not
\* self._is_running: break'; a 'cancelled' line breaks, an 'error' line emits
\* error and breaks, a result line is saved and the loop goes on.
W_loop_body ==
    /\ wpc = "loop_body"
    /\ IF ~_is_running
       THEN wpc' = "after_loop" /\ UNCHANGED <<status_received, error_emits>>
       ELSE /\ status_received' = IF line = "segment" THEN status_received ELSE line
            /\ error_emits' = IF line = "error" THEN error_emits + 1 ELSE error_emits
            /\ wpc' = IF line = "segment" THEN "iter" ELSE "after_loop"
    /\ UNCHANGED <<_is_running, response_lines, line, response_closed,
                   stop_called, finished_emits>>
    /\ UNCHANGED notWorker

\* Line 145: 'if self._is_running:'.
W_after_loop ==
    /\ wpc = "after_loop"
    /\ wpc' = IF _is_running THEN "emit_finished" ELSE "finally"
    /\ UNCHANGED <<_is_running, response_lines, line, response_closed,
                   stop_called, status_received, finished_emits, error_emits>>
    /\ UNCHANGED notWorker

\* Line 146: self.finished.emit("Transcription completed and saved.").
W_emit_finished ==
    /\ wpc = "emit_finished"
    /\ finished_emits' = finished_emits + 1
    /\ wpc' = "finally"
    /\ UNCHANGED <<_is_running, response_lines, line, response_closed,
                   stop_called, status_received, error_emits>>
    /\ UNCHANGED notWorker

\* Lines 148-153: the except clauses emit error.
W_except ==
    /\ wpc = "except"
    /\ error_emits' = error_emits + 1
    /\ wpc' = "finally"
    /\ UNCHANGED <<_is_running, response_lines, line, response_closed,
                   stop_called, status_received, finished_emits>>
    /\ UNCHANGED notWorker

\* Lines 154-156: the finally clause, _cleanup.
W_finally ==
    /\ wpc = "finally"
    /\ wpc' = "done"
    /\ UNCHANGED <<_is_running, response_lines, line, response_closed,
                   stop_called, status_received, finished_emits, error_emits>>
    /\ UNCHANGED notWorker

\* stop(), called on another thread while run is under way: line 161,
\* self._is_running = False.
W_stop ==
    /\ ~stop_called
    /\ wpc # "done"
    /\ stop_called' = TRUE
    /\ _is_running' = FALSE
    /\ UNCHANGED <<wpc, response_lines, line, response_closed, status_received,
                   finished_emits, error_emits>>
    /\ UNCHANGED notWorker

\* stop(), lines 163-191: after its cancel and cleanup requests it closes
\* the response.
W_stop_close ==
    /\ stop_called
    /\ ~response_closed
    /\ response_closed' = TRUE
    /\ UNCHANGED <<wpc, _is_running, response_lines, line, stop_called,
                   status_received, finished_emits, error_emits>>
    /\ UNCHANGED notWorker

run ==
    \/ W_upload
    \/ W_iter
    \/ W_loop_body
    \/ W_after_loop
    \/ W_emit_finished
    \/ W_except
    \/ W_finally

WorkerNext ==
    \/ run
    \/ W_stop
    \/ W_stop_close

ExtIdle ==
    ModelManagerInit /\ ClientInit /\ SegmentIdle /\ StopInit /\ WorkerInit

\* ------------------------------------------------------------------- Init
\* The server is up, the registry is empty and a /transcribe request with
\* its two inputs (the translation flag and the media) has arrived.
PipelineInit ==
    /\ segment_queues = NoEntry
    /\ cancel_events = NoEntry
    /\ cancel_events_lock = "free"
    /\ allocated = 0
    /\ queue = [i \in ObjIds |-> <<>>]
    /\ event = [i \in ObjIds |-> FALSE]
    /\ tq = <<>>
    /\ enable_translation \in BOOLEAN
    /\ nRecords \in 0..MaxRecords
    /\ rpc = "start"
    /\ opc = "not_started"
    /\ o_queue = NoEntry
    /\ o_event = NoEntry
    /\ audio_data_np = "unset"
    /\ output_folder = FALSE
    /\ ppc = "not_started"
    /\ segment_idx_counter = 0
    /\ tpc = "not_started"
    /\ segment_to_translate = STOP_SIGNAL
    /\ bpc = "not_started"
    /\ lines = <<>>
    /\ ended = "no"
    /\ epc = "idle"
    /\ hist = [cancelCalled |-> FALSE,   \* POST /cancel was served
               cleanupCalled |-> FALSE,  \* DELETE /cleanup was served
               disconnected |-> FALSE,   \* the client closed the connection
               raised |-> FALSE,         \* the transcriber or the model loader raised
               audio |-> "unset",        \* what the audio extraction returned
               failedAt |-> {},          \* indices whose translation failed
               teardownCancel |-> FALSE, \* the boundary's teardown called cancel_task
               cancelMidStream |-> FALSE, \* /cancel set the flag, the stream open
                                          \* and fewer than nRecords lines received
               resultAfterCancel |-> FALSE, \* a result line was yielded after that
               pendingAtCancel |-> -1,   \* result records yielded or queued for the
                                         \* boundary at that moment
               prodAfter |-> 0,          \* records the producer put after its event was set
               transAfter |-> 0,         \* records the translation worker put after it
               prodStops |-> 0,          \* STOP_SIGNALs the producer put
               prodAfterStop |-> FALSE,  \* the producer put an item after a STOP_SIGNAL
               transStops |-> 0,         \* STOP_SIGNALs the translation worker put
               transAfterStop |-> FALSE, \* the worker put an item after a STOP_SIGNAL
               cancelResponse |-> "none", \* body of the last response to POST /cancel:
                                          \* "message" ({"message": ...}) or
                                          \* "error" ({"error": ...}, 500)
               rmtreeFailed |-> FALSE]    \* the latest rmtree of the scratch folder raised

\* The pipeline's initial state; the other components are at rest.
Init == PipelineInit /\ ExtIdle /\ keep_history = TRUE

\* The same state, for runs that keep no history.
InitNoHistory == PipelineInit /\ ExtIdle /\ keep_history = FALSE

\* The pipeline at rest, for the specifications of the other components.
PipelineIdle == PipelineInit /\ ~enable_translation /\ nRecords = 0

\* Everything at rest.
AllIdle == PipelineIdle /\ ExtIdle /\ keep_history = TRUE

ModelManagerSpec == AllIdle /\ [][ModelManagerNext]_<<vars, extVars>>

\* create_segment_jobs applied to every input of the stated kind.
SegmentStart ==
    /\ PipelineIdle /\ ModelManagerInit /\ ClientInit /\ SegmentInputs
    /\ StopInit /\ WorkerInit /\ keep_history = TRUE

SegmentSpec == SegmentStart /\ [][create_segment_jobs]_<<vars, extVars>>

\* The server with its requests and threads, and one call of stop.
StopSpec == AllIdle /\ [][StopNext]_<<vars, extVars>>

\* One run of the client's worker thread, and stop() on the GUI thread.
WorkerSpec == AllIdle /\ [][WorkerNext]_<<vars, extVars>>

\* One call of start_server_if_needed; the thread that makes it keeps
\* running, and every request ends within SERVER_HEALTH_CHECK_TIMEOUT.
ClientSpec ==
    /\ AllIdle
    /\ [][start_server_if_needed]_<<vars, extVars>>
    /\ WF_<<vars, extVars>>(start_server_if_needed)

\* ---------------------------------------------------- POST /transcribe/
\* transcribe_video_streaming: the upload is saved under temp/<task_id>, the
\* task is registered, the orchestrator thread is started and the response
\* starts streaming from the queue the registration returned.
transcribe_video_streaming ==
    /\ rpc = "start"
    /\ register_task("route")
    /\ output_folder' = TRUE
    /\ rpc' = "streaming"
    /\ opc' = "register"
    /\ bpc' = "check"
    /\ UNCHANGED <<queue, event, tq, inputVars, o_queue, o_event, audio_data_np,
                   prodVars, transVars, lines, ended, epc, hist>>
    /\ UNCHANGED extVars

\* ------------------------------------- VideoProcessor: the orchestrator
\* process_video_with_streaming, line 189: register_task under the lock.
O_register ==
    /\ opc = "register"
    /\ register_task("orch")
    /\ opc' = "register_return"
    /\ UNCHANGED <<queue, event, tq, inputVars, rpc, o_queue, o_event,
                   audio_data_np, output_folder, prodVars, transVars,
                   boundVars, epc, hist>>
    /\ UNCHANGED extVars

\* register_task's return statement, after the lock was released: both maps
\* are indexed again.  A KeyError leaves process_video_with_streaming before
\* its try block, so the thread dies without running the finally clause.
O_register_return ==
    /\ opc = "register_return"
    /\ IF segment_queues # NoEntry /\ cancel_events # NoEntry
       THEN /\ o_queue' = segment_queues
            /\ o_event' = cancel_events
            /\ opc' = "load_audio"
       ELSE /\ opc' = "crashed"
            /\ UNCHANGED <<o_queue, o_event>>
    /\ UNCHANGED <<regVars, queue, event, tq, inputVars, rpc, audio_data_np,
                   output_folder, prodVars, transVars, boundVars, epc, hist>>
    /\ UNCHANGED extVars

\* AudioPreprocessor.load_raw_audio_into_context: the extraction succeeds or
\* yields None (r is the outcome: an array, an array of length 0, or None);
\* None raises ValueError unless the cancel event is set.
load_raw_audio_into_context(r) ==
    /\ audio_data_np' = r
    /\ opc' = IF r # "None" \/ event[o_event] THEN "check_cancel" ELSE "except_ValueError"
    /\ hist' = Record([hist EXCEPT !.audio = r])

O_load_audio ==
    /\ opc = "load_audio"
    /\ \E r \in {"loaded", "empty", "None"} : load_raw_audio_into_context(r)
    /\ UNCHANGED <<regVars, queue, event, tq, inputVars, rpc, o_queue, o_event,
                   output_folder, prodVars, transVars, boundVars, epc>>
    /\ UNCHANGED extVars

\* Lines 197-209: the cancellation check after audio loading (the branch for
\* missing audio is kept although load_raw_audio_into_context leaves no way
\* into it).
O_check_cancel ==
    /\ opc = "check_cancel"
    /\ opc' = IF event[o_event] THEN "handle_cancellation"
              ELSE IF audio_data_np = "None" THEN "except_ValueError"
              ELSE "get_model"
    /\ UNCHANGED <<regVars, queue, event, tq, inputVars, rpc, o_queue, o_event,
                   audio_data_np, output_folder, prodVars, transVars,
                   boundVars, epc, hist>>
    /\ UNCHANGED extVars

\* _handle_cancellation: a 'cancelled' record and STOP_SIGNAL are offered to
\* the queue the registry holds now; queue.Full ends the attempt.
CancelledDuringSetup == StatusRecord("cancelled", "Task cancelled during setup.", -1)

_handle_cancellation(q) ==
    IF Len(q) < DEFAULT_OUTPUT_QUEUE_SIZE
    THEN put_nowait(Append(q, CancelledDuringSetup), DEFAULT_OUTPUT_QUEUE_SIZE, STOP_SIGNAL)
    ELSE q

O_handle_cancellation ==
    /\ opc = "handle_cancellation"
    /\ queue' = IF segment_queues # NoEntry
                THEN [queue EXCEPT ![segment_queues] = _handle_cancellation(@)]
                ELSE queue
    /\ opc' = "finally"
    /\ UNCHANGED <<regVars, event, tq, inputVars, rpc, o_queue, o_event,
                   audio_data_np, output_folder, prodVars, transVars,
                   boundVars, epc, hist>>
    /\ UNCHANGED extVars

\* ModelManager.get_model followed by the thread starts (lines 211-267); a
\* failing model load raises into the generic except clause.
O_get_model ==
    /\ opc = "get_model"
    /\ \E ok \in BOOLEAN :
         IF ok
         THEN /\ ppc' = "start"
              /\ tpc' = IF enable_translation THEN "check" ELSE tpc
              /\ opc' = "join_transcription"
              /\ UNCHANGED hist
         ELSE /\ opc' = "except_Exception"
              /\ hist' = Record([hist EXCEPT !.raised = TRUE])
              /\ UNCHANGED <<ppc, tpc>>
    /\ UNCHANGED <<regVars, queue, event, tq, inputVars, rpc, o_queue, o_event,
                   audio_data_np, output_folder, segment_idx_counter,
                   segment_to_translate, boundVars, epc>>
    /\ UNCHANGED extVars

\* The orchestrator going on to its finally clause without waiting for the
\* producer thread.
O_join_no_wait ==
    /\ opc = "join_transcription"
    /\ opc' = IF enable_translation THEN "join_translator" ELSE "finally"
    /\ UNCHANGED <<regVars, queue, event, tq, inputVars, rpc, o_queue, o_event,
                   audio_data_np, output_folder, prodVars, transVars,
                   boundVars, epc, hist>>
    /\ UNCHANGED extVars

\* transcription_thread.join()
O_join_transcription ==
    /\ opc = "join_transcription"
    /\ ppc = "done"
    /\ opc' = IF enable_translation THEN "join_translator" ELSE "finally"
    /\ UNCHANGED <<regVars, queue, event, tq, inputVars, rpc, o_queue, o_event,
                   audio_data_np, output_folder, prodVars, transVars,
                   boundVars, epc, hist>>
    /\ UNCHANGED extVars

\* translator_thread.join()
O_join_translator ==
    /\ opc = "join_translator"
    /\ tpc = "done"
    /\ opc' = "finally"
    /\ UNCHANGED <<regVars, queue, event, tq, inputVars, rpc, o_queue, o_event,
                   audio_data_np, output_folder, prodVars, transVars,
                   boundVars, epc, hist>>
    /\ UNCHANGED extVars

\* _finalize_task offering its status record twice.
_finalize_task_twice(q, message) ==
    put_nowait(put_nowait(q, DEFAULT_OUTPUT_QUEUE_SIZE,
                          StatusRecord(IF is_cancelled THEN "cancelled" ELSE "error",
                                       message, -1)),
               DEFAULT_OUTPUT_QUEUE_SIZE,
               StatusRecord(IF is_cancelled THEN "cancelled" ELSE "error",
                            message, -1))

\* _finalize_task(task_id, error=True, message): when the registry still
\* holds a queue, a 'cancelled' record (task cancelled) or an 'error' record
\* is offered to it without blocking.
_finalize_task(q, message) ==
    put_nowait(q, DEFAULT_OUTPUT_QUEUE_SIZE,
               IF is_cancelled
               THEN StatusRecord("cancelled", message, -1)
               ELSE StatusRecord("error", message, -1))

\* The two except clauses of process_video_with_streaming.
O_except ==
    /\ opc \in {"except_ValueError", "except_Exception"}
    /\ queue' = IF segment_queues # NoEntry
                THEN [queue EXCEPT ![segment_queues] =
                        _finalize_task(@, IF opc = "except_ValueError"
                                          THEN "Failed to load raw audio data for processing."
                                          ELSE "An unexpected error occurred.")]
                ELSE queue
    /\ opc' = "finally"
    /\ UNCHANGED <<regVars, event, tq, inputVars, rpc, o_queue, o_event,
                   audio_data_np, output_folder, prodVars, transVars,
                   boundVars, epc, hist>>
    /\ UNCHANGED extVars

\* The finally clause running cleanup_task only when the scratch folder could
\* be removed.
O_finally_returns_on_failure ==
    /\ opc = "finally"
    /\ audio_data_np' = "None"
    /\ \E removed \in (IF output_folder THEN BOOLEAN ELSE {TRUE}) :
          /\ output_folder' = (output_folder /\ ~removed)
          /\ hist' = Record([hist EXCEPT !.rmtreeFailed = ~removed])
          /\ opc' = IF removed THEN "cleanup_task" ELSE "returned"
    /\ UNCHANGED <<regVars, queue, event, tq, inputVars, rpc, o_queue, o_event,
                   prodVars, transVars, boundVars, epc>>
    /\ UNCHANGED extVars

\* The finally clause up to cleanup_task: the audio is dropped and, when the
\* scratch folder exists, shutil.rmtree removes it or raises; the exception
\* is caught and logged (_cleanup_output_folder).
O_finally ==
    /\ opc = "finally"
    /\ audio_data_np' = "None"
    /\ \E removed \in (IF output_folder THEN BOOLEAN ELSE {TRUE}) :
          /\ output_folder' = (output_folder /\ ~removed)
          /\ hist' = Record([hist EXCEPT !.rmtreeFailed = ~removed])
    /\ opc' = "cleanup_task"
    /\ UNCHANGED <<regVars, queue, event, tq, inputVars, rpc, o_queue, o_event,
                   prodVars, transVars, boundVars, epc>>
    /\ UNCHANGED extVars

\* The finally clause: task_manager.cleanup_task(task_id), in its two halves.
O_cleanup_task_events ==
    /\ opc = "cleanup_task"
    /\ cleanup_task_events("orch")
    /\ opc' = "cleanup_task_queue"
    /\ UNCHANGED <<tq, inputVars, rpc, o_queue, o_event, audio_data_np,
                   output_folder, prodVars, transVars, boundVars, epc, hist>>
    /\ UNCHANGED extVars

O_cleanup_task_queue ==
    /\ opc = "cleanup_task_queue"
    /\ cleanup_task_queue("orch")
    /\ opc' = "returned"
    /\ UNCHANGED <<tq, inputVars, rpc, o_queue, o_event, audio_data_np,
                   output_folder, prodVars, transVars, boundVars, epc, hist>>
    /\ UNCHANGED extVars

\* ------------------------- VideoProcessor._transcription_producer_worker
\* A put that, instead of blocking on a full intermediate queue, makes room
\* by discarding the oldest item.
PutTarget_dropping(item) ==
    IF enable_translation
    THEN /\ tq' = IF CanPut(tq, DEFAULT_TRANSCRIPTION_QUEUE_SIZE)
                  THEN Append(tq, item) ELSE Append(Tail(tq), item)
         /\ UNCHANGED queue
    ELSE /\ CanPut(queue[o_queue], DEFAULT_OUTPUT_QUEUE_SIZE)
         /\ queue' = [queue EXCEPT ![o_queue] = Append(@, item)]
         /\ UNCHANGED tq

\* target_queue.put(item), blocking: the target is the client output queue,
\* or the intermediate queue when translation is enabled.
PutTarget(item) ==
    IF enable_translation
    THEN /\ CanPut(tq, DEFAULT_TRANSCRIPTION_QUEUE_SIZE)
         /\ tq' = Append(tq, item)
         /\ UNCHANGED queue
    ELSE /\ CanPut(queue[o_queue], DEFAULT_OUTPUT_QUEUE_SIZE)
         /\ queue' = [queue EXCEPT ![o_queue] = Append(@, item)]
         /\ UNCHANGED tq

\* Lines 54-63: an empty audio array is reported as an error record.
P_start ==
    /\ ppc = "start"
    /\ ppc' = IF audio_data_np = "empty" THEN "put_error" ELSE "iterate"
    /\ UNCHANGED <<regVars, queue, event, tq, inputVars, rpc, orchVars,
                   segment_idx_counter, transVars, boundVars, epc, hist>>
    /\ UNCHANGED extVars

\* P_iterate without the test of the cancel event.
P_iterate_no_cancel_check ==
    /\ ppc = "iterate"
    /\ ppc' = IF segment_idx_counter < nRecords THEN "put" ELSE "put_stop"
    /\ UNCHANGED <<regVars, queue, event, tq, inputVars, rpc, orchVars,
                   segment_idx_counter, transVars, boundVars, epc, hist>>
    /\ UNCHANGED extVars

\* Lines 71-81: the transcriber yields its next segment and the cancel event
\* is tested, or the transcriber is exhausted.
P_iterate ==
    /\ ppc = "iterate"
    /\ ppc' = IF segment_idx_counter < nRecords /\ ~event[o_event]
              THEN "put" ELSE "put_stop"
    /\ UNCHANGED <<regVars, queue, event, tq, inputVars, rpc, orchVars,
                   segment_idx_counter, transVars, boundVars, epc, hist>>
    /\ UNCHANGED extVars

\* The transcriber raises instead of yielding (lines 101-112 follow).
P_raise ==
    /\ ppc = "iterate"
    /\ ppc' = "put_error"
    /\ hist' = Record([hist EXCEPT !.raised = TRUE])
    /\ UNCHANGED <<regVars, queue, event, tq, inputVars, rpc, orchVars,
                   segment_idx_counter, transVars, boundVars, epc>>
    /\ UNCHANGED extVars

\* P_put with the increment of segment_idx_counter left out.
P_put_no_increment ==
    /\ ppc = "put"
    /\ PutTarget(segment_data(segment_idx_counter))
    /\ segment_idx_counter' = segment_idx_counter
    /\ ppc' = "iterate"
    /\ hist' = Record([hist EXCEPT !.prodAfter = @ + (IF event[o_event] THEN 1 ELSE 0),
                            !.prodAfterStop = @ \/ hist.prodStops > 0])
    /\ UNCHANGED <<regVars, event, inputVars, rpc, orchVars, transVars,
                   boundVars, epc>>
    /\ UNCHANGED extVars

\* Lines 88-99: target_queue.put(segment_data); segment_idx_counter += 1.
P_put ==
    /\ ppc = "put"
    /\ PutTarget(segment_data(segment_idx_counter))
    /\ segment_idx_counter' = segment_idx_counter + 1
    /\ ppc' = "iterate"
    /\ hist' = Record([hist EXCEPT !.prodAfter = @ + (IF event[o_event] THEN 1 ELSE 0),
                            !.prodAfterStop = @ \/ hist.prodStops > 0])
    /\ UNCHANGED <<regVars, event, inputVars, rpc, orchVars, transVars,
                   boundVars, epc>>
    /\ UNCHANGED extVars

\* Lines 56-62 and 106-112: the error record, carrying the current index.
P_put_error ==
    /\ ppc = "put_error"
    /\ PutTarget(StatusRecord("error",
                              IF audio_data_np = "empty" THEN "Audio array is empty"
                              ELSE "Transcription process failed",
                              segment_idx_counter))
    /\ ppc' = "put_stop"
    /\ hist' = Record([hist EXCEPT !.prodAfterStop = @ \/ hist.prodStops > 0])
    /\ UNCHANGED <<regVars, event, inputVars, rpc, orchVars,
                   segment_idx_counter, transVars, boundVars, epc>>
    /\ UNCHANGED extVars

\* The producer returning without its finally clause.
P_put_stop_skipped ==
    /\ ppc = "put_stop"
    /\ ppc' = "done"
    /\ UNCHANGED <<regVars, queue, event, tq, inputVars, rpc, orchVars,
                   segment_idx_counter, transVars, boundVars, epc, hist>>
    /\ UNCHANGED extVars

\* The error record of lines 106-112 put after the sentinel: the except
\* clause running once the finally clause is over.
P_put_stop_then_error ==
    /\ ppc = "put_stop"
    /\ PutTarget(STOP_SIGNAL)
    /\ ppc' = IF hist.raised /\ hist.prodStops = 0 THEN "put_error" ELSE "done"
    /\ hist' = Record([hist EXCEPT !.prodStops = @ + 1])
    /\ UNCHANGED <<regVars, event, inputVars, rpc, orchVars,
                   segment_idx_counter, transVars, boundVars, epc>>
    /\ UNCHANGED extVars

\* Lines 114-115: finally target_queue.put(STOP_SIGNAL).
P_put_stop ==
    /\ ppc = "put_stop"
    /\ PutTarget(STOP_SIGNAL)
    /\ ppc' = "done"
    /\ hist' = Record([hist EXCEPT !.prodStops = @ + 1])
    /\ UNCHANGED <<regVars, event, inputVars, rpc, orchVars,
                   segment_idx_counter, transVars, boundVars, epc>>
    /\ UNCHANGED extVars

\* ------------------- VideoProcessor._translation_consumer_producer_worker
\* translate_segment letting a failed model call end in an error record
\* instead of a marked segment.
translate_segment_failing(seg, ok) ==
    IF seg.text = "" THEN seg
    ELSE IF ok THEN [seg EXCEPT !.text = "translated"]
    ELSE StatusRecord("error", "Translation process failed.", -1)

\* Translator.translate_segment: a segment without text is returned as it
\* is; otherwise its text is replaced by the translation, or by the text
\* behind an error marker when the model call raised.
translate_segment(seg, ok) ==
    IF seg.text = "" THEN seg
    ELSE [seg EXCEPT !.text = IF ok THEN "translated" ELSE "[Translation Error] text"]

\* Lines 130-132: the cancel check at the top of the loop.
T_check ==
    /\ tpc = "check"
    /\ tpc' = IF event[o_event] THEN "put_stop" ELSE "get"
    /\ UNCHANGED <<regVars, queue, event, tq, inputVars, rpc, orchVars,
                   prodVars, segment_to_translate, boundVars, epc, hist>>
    /\ UNCHANGED extVars

\* T_get handing an error record to the translator like any segment.
T_get_translates_error ==
    /\ tpc = "get"
    /\ tq # <<>>
    /\ tq' = Tail(tq)
    /\ LET item == Head(tq) IN
         IF item = STOP_SIGNAL
         THEN /\ tpc' = "put_stop"
              /\ UNCHANGED <<segment_to_translate, hist>>
         ELSE \E ok \in BOOLEAN :
                /\ tpc' = "put"
                /\ segment_to_translate' = translate_segment(item, ok)
                /\ hist' = Record(IF ok THEN hist
                           ELSE [hist EXCEPT !.failedAt = @ \cup {item.index}])
    /\ UNCHANGED <<regVars, queue, event, inputVars, rpc, orchVars, prodVars,
                   boundVars, epc>>
    /\ UNCHANGED extVars

\* Lines 134-159: an item is taken from the input queue; STOP_SIGNAL ends the
\* loop, an error record is to be propagated, a segment is translated.
T_get ==
    /\ tpc = "get"
    /\ tq # <<>>
    /\ tq' = Tail(tq)
    /\ LET item == Head(tq) IN
         IF item = STOP_SIGNAL
         THEN /\ tpc' = "put_stop"
              /\ UNCHANGED <<segment_to_translate, hist>>
         ELSE IF item.status = "error"
         THEN /\ tpc' = "put_error"
              /\ segment_to_translate' = item
              /\ UNCHANGED hist
         ELSE \E ok \in BOOLEAN :
                /\ tpc' = "put"
                /\ segment_to_translate' = translate_segment(item, ok)
                /\ hist' = Record(IF ok THEN hist
                           ELSE [hist EXCEPT !.failedAt = @ \cup {item.index}])
    /\ UNCHANGED <<regVars, queue, event, inputVars, rpc, orchVars, prodVars,
                   boundVars, epc>>
    /\ UNCHANGED extVars

\* T_timeout leaving the loop when the input queue is empty.
T_timeout_breaks ==
    /\ tpc = "get"
    /\ tq = <<>>
    /\ tpc' = "put_stop"
    /\ UNCHANGED <<regVars, queue, event, tq, inputVars, rpc, orchVars,
                   prodVars, segment_to_translate, boundVars, epc, hist>>
    /\ UNCHANGED extVars

\* Lines 135-136: input_queue.get timed out (queue.Empty): continue.
T_timeout ==
    /\ tpc = "get"
    /\ tq = <<>>
    /\ tpc' = "check"
    /\ UNCHANGED <<regVars, queue, event, tq, inputVars, rpc, orchVars,
                   prodVars, segment_to_translate, boundVars, epc, hist>>
    /\ UNCHANGED extVars

\* T_put placing the segment at the head of the output queue.
T_put_at_head ==
    /\ tpc = "put"
    /\ CanPut(queue[o_queue], DEFAULT_OUTPUT_QUEUE_SIZE)
    /\ queue' = [queue EXCEPT ![o_queue] = <<segment_to_translate>> \o @]
    /\ tpc' = "check"
    /\ hist' = Record([hist EXCEPT !.transAfter = @ + (IF event[o_event] THEN 1 ELSE 0),
                            !.transAfterStop = @ \/ hist.transStops > 0])
    /\ UNCHANGED <<regVars, event, tq, inputVars, rpc, orchVars, prodVars,
                   segment_to_translate, boundVars, epc>>
    /\ UNCHANGED extVars

\* Line 161: output_queue.put(translated_segment_data), blocking.
T_put ==
    /\ tpc = "put"
    /\ CanPut(queue[o_queue], DEFAULT_OUTPUT_QUEUE_SIZE)
    /\ queue' = [queue EXCEPT ![o_queue] = Append(@, segment_to_translate)]
    /\ tpc' = "check"
    /\ hist' = Record([hist EXCEPT !.transAfter = @ + (IF event[o_event] THEN 1 ELSE 0),
                            !.transAfterStop = @ \/ hist.transStops > 0])
    /\ UNCHANGED <<regVars, event, tq, inputVars, rpc, orchVars, prodVars,
                   segment_to_translate, boundVars, epc>>
    /\ UNCHANGED extVars

\* T_put_error returning from the worker right after the error record,
\* without the finally clause.
T_put_error_returns ==
    /\ tpc = "put_error"
    /\ CanPut(queue[o_queue], DEFAULT_OUTPUT_QUEUE_SIZE)
    /\ queue' = [queue EXCEPT ![o_queue] = Append(@, segment_to_translate)]
    /\ tpc' = "done"
    /\ hist' = Record([hist EXCEPT !.transAfterStop = @ \/ hist.transStops > 0])
    /\ UNCHANGED <<regVars, event, tq, inputVars, rpc, orchVars, prodVars,
                   segment_to_translate, boundVars, epc>>
    /\ UNCHANGED extVars

\* Line 151: the transcription error record is put on the output queue.
T_put_error ==
    /\ tpc = "put_error"
    /\ CanPut(queue[o_queue], DEFAULT_OUTPUT_QUEUE_SIZE)
    /\ queue' = [queue EXCEPT ![o_queue] = Append(@, segment_to_translate)]
    /\ tpc' = "put_stop"
    /\ hist' = Record([hist EXCEPT !.transAfterStop = @ \/ hist.transStops > 0])
    /\ UNCHANGED <<regVars, event, tq, inputVars, rpc, orchVars, prodVars,
                   segment_to_translate, boundVars, epc>>
    /\ UNCHANGED extVars

\* Lines 175-176: finally output_queue.put(STOP_SIGNAL).
T_put_stop ==
    /\ tpc = "put_stop"
    /\ CanPut(queue[o_queue], DEFAULT_OUTPUT_QUEUE_SIZE)
    /\ queue' = [queue EXCEPT ![o_queue] = Append(@, STOP_SIGNAL)]
    /\ tpc' = "done"
    /\ hist' = Record([hist EXCEPT !.transStops = @ + 1])
    /\ UNCHANGED <<regVars, event, tq, inputVars, rpc, orchVars, prodVars,
                   segment_to_translate, boundVars, epc>>
    /\ UNCHANGED extVars

\* ------------------------- routes.py: stream_transcription_results
\* The queue the route handler's register_task returned: the first Queue
\* object created for the task.
client_output_queue == 1

CancelledByServer == StatusRecord("cancelled", "Task cancelled by server", -1)

\* Lines 62-72: the cancellation check at the top of the loop.
B_check ==
    /\ bpc = "check"
    /\ IF is_cancelled
       THEN /\ lines' = Append(lines, CancelledByServer)
            /\ ended' = "cancelled_by_server"
            /\ bpc' = "finally"
       ELSE /\ bpc' = "get"
            /\ UNCHANGED <<lines, ended>>
    /\ UNCHANGED <<regVars, queue, event, tq, inputVars, rpc, orchVars,
                   prodVars, transVars, epc, hist>>
    /\ UNCHANGED extVars

\* B_get with the break after a status record left out.
B_get_no_break ==
    /\ bpc = "get"
    /\ queue[client_output_queue] # <<>>
    /\ queue' = [queue EXCEPT ![client_output_queue] = Tail(@)]
    /\ LET result == Head(queue[client_output_queue]) IN
         IF result = STOP_SIGNAL
         THEN /\ ended' = "stop_signal"
              /\ bpc' = "finally"
              /\ UNCHANGED lines
         ELSE /\ lines' = Append(lines, result)
              /\ ended' = ended
              /\ bpc' = "check"
    /\ UNCHANGED <<regVars, event, tq, inputVars, rpc, orchVars, prodVars,
                   transVars, epc, hist>>
    /\ UNCHANGED extVars

\* Lines 74-94: an item is taken from the client queue; STOP_SIGNAL ends the
\* stream, anything else is yielded as a line, a status record ends the stream.
B_get ==
    /\ bpc = "get"
    /\ queue[client_output_queue] # <<>>
    /\ queue' = [queue EXCEPT ![client_output_queue] = Tail(@)]
    /\ LET result == Head(queue[client_output_queue]) IN
         IF result = STOP_SIGNAL
         THEN /\ ended' = "stop_signal"
              /\ bpc' = "finally"
              /\ UNCHANGED lines
         ELSE /\ lines' = Append(lines, result)
              /\ ended' = IF IsStatus(result) THEN "status_record" ELSE ended
              /\ bpc' = IF IsStatus(result) THEN "finally" ELSE "check"
    /\ hist' = Record([hist EXCEPT !.resultAfterCancel =
                    @ \/ (hist.cancelMidStream
                          /\ IsResult(Head(queue[client_output_queue])))])
    /\ UNCHANGED <<regVars, event, tq, inputVars, rpc, orchVars, prodVars,
                   transVars, epc>>
    /\ UNCHANGED extVars

\* Lines 95-96: the get timed out (queue.Empty); sleep and retry.
B_timeout ==
    /\ bpc = "get"
    /\ queue[client_output_queue] = <<>>
    /\ bpc' = "check"
    /\ UNCHANGED <<regVars, queue, event, tq, inputVars, rpc, orchVars,
                   prodVars, transVars, lines, ended, epc, hist>>
    /\ UNCHANGED extVars

\* The client closes the connection: the generator is closed at its current
\* yield or await and control passes to the finally clause.
B_disconnect ==
    /\ bpc \in {"check", "get"}
    /\ ended' = "disconnect"
    /\ bpc' = "finally"
    /\ hist' = Record([hist EXCEPT !.disconnected = TRUE])
    /\ UNCHANGED <<regVars, queue, event, tq, inputVars, rpc, orchVars,
                   prodVars, transVars, lines, epc>>
    /\ UNCHANGED extVars

\* The teardown without its call of cancel_task.
B_finally_no_cancel ==
    /\ bpc = "finally"
    /\ bpc' = "done"
    /\ UNCHANGED <<regVars, queue, event, tq, inputVars, rpc, orchVars, prodVars,
                   transVars, lines, ended, epc, hist>>
    /\ UNCHANGED extVars

\* Lines 114-123: teardown; cancel_task unless the task reads as cancelled.
B_finally ==
    /\ bpc = "finally"
    /\ IF is_cancelled
       THEN UNCHANGED <<event, hist>>
       ELSE /\ cancel_events_lock = "free"
            /\ event' = cancel_task_events
            /\ hist' = Record([hist EXCEPT !.teardownCancel = TRUE])
    /\ bpc' = "done"
    /\ UNCHANGED <<regVars, queue, tq, inputVars, rpc, orchVars, prodVars,
                   transVars, lines, ended, epc>>
    /\ UNCHANGED extVars

\* ------------------------------------------- routes.py: POST /cancel
\* cancel_task_endpoint: cancel_task under the lock, then the response
\* {"message": ...}; the error response is sent only when cancel_task raises,
\* which it never does.  The client knows the task id from the response
\* headers of /transcribe.
cancel_task_endpoint ==
    /\ rpc = "streaming"
    /\ cancel_events_lock = "free"
    /\ event' = cancel_task_events
    /\ hist' = Record([hist EXCEPT !.cancelCalled = TRUE,
                            !.cancelResponse = "message",
                            !.cancelMidStream =
                                @ \/ (/\ cancel_events # NoEntry
                                      /\ bpc \in {"check", "get"}
                                      /\ Len(lines) < nRecords),
                            !.pendingAtCancel =
                                IF /\ ~hist.cancelMidStream
                                   /\ cancel_events # NoEntry
                                   /\ bpc \in {"check", "get"}
                                   /\ Len(lines) < nRecords
                                THEN Len(SelectSeq(lines, IsResult))
                                     + Len(SelectSeq(queue[client_output_queue], IsResult))
                                ELSE @])
    /\ UNCHANGED <<regVars, queue, tq, inputVars, rpc, orchVars, prodVars,
                   transVars, boundVars, epc>>
    /\ UNCHANGED extVars

\* ----------------------------------------- routes.py: DELETE /cleanup
\* cleanup_task_endpoint, lines 149-151: cancel_task unless the task reads as
\* cancelled.
E_cancel ==
    /\ rpc = "streaming"
    /\ epc = "idle"
    /\ IF is_cancelled
       THEN UNCHANGED event
       ELSE /\ cancel_events_lock = "free"
            /\ event' = cancel_task_events
    /\ epc' = "cleanup_task"
    /\ hist' = Record([hist EXCEPT !.cleanupCalled = TRUE])
    /\ UNCHANGED <<regVars, queue, tq, inputVars, rpc, orchVars, prodVars,
                   transVars, boundVars>>
    /\ UNCHANGED extVars

\* E_cleanup_task_events leaving the scratch folder in place.
E_cleanup_task_events_keeps_folder ==
    /\ epc = "cleanup_task"
    /\ cleanup_task_events("endpoint")
    /\ epc' = "cleanup_task_queue"
    /\ UNCHANGED <<tq, inputVars, rpc, orchVars, prodVars, transVars,
                   boundVars, hist>>
    /\ UNCHANGED extVars

\* Lines 154-168: when the scratch folder exists, rmtree removes it or raises
\* (caught and logged); then cleanup_task is entered.
E_cleanup_task_events ==
    /\ epc = "cleanup_task"
    /\ cleanup_task_events("endpoint")
    /\ \E removed \in (IF output_folder THEN BOOLEAN ELSE {TRUE}) :
          /\ output_folder' = (output_folder /\ ~removed)
          /\ hist' = Record([hist EXCEPT !.rmtreeFailed = ~removed])
    /\ epc' = "cleanup_task_queue"
    /\ UNCHANGED <<tq, inputVars, rpc, opc, o_queue, o_event, audio_data_np,
                   prodVars, transVars, boundVars>>
    /\ UNCHANGED extVars

E_cleanup_task_queue ==
    /\ epc = "cleanup_task_queue"
    /\ cleanup_task_queue("endpoint")
    /\ epc' = "idle"
    /\ UNCHANGED <<tq, inputVars, rpc, orchVars, prodVars, transVars,
                   boundVars, hist>>
    /\ UNCHANGED extVars

\* ------------------------------------------------------- specification
Orchestrator ==
    \/ O_register \/ O_register_return \/ O_load_audio \/ O_check_cancel
    \/ O_handle_cancellation \/ O_get_model \/ O_join_transcription
    \/ O_join_translator \/ O_except \/ O_finally
    \/ O_cleanup_task_events \/ O_cleanup_task_queue

Producer == P_start \/ P_iterate \/ P_put \/ P_put_error \/ P_put_stop

TranslationWorker ==
    T_check \/ T_get \/ T_timeout \/ T_put \/ T_put_error \/ T_put_stop

Boundary == B_check \/ B_get \/ B_timeout \/ B_finally

CleanupEndpoint == E_cancel \/ E_cleanup_task_events \/ E_cleanup_task_queue

Next ==
    \/ transcribe_video_streaming
    \/ Orchestrator
    \/ Producer
    \/ P_raise
    \/ TranslationWorker
    \/ Boundary
    \/ B_disconnect
    \/ cancel_task_endpoint
    \/ CleanupEndpoint

Spec == Init /\ [][Next]_<<vars, extVars>>

\* Every thread that can take a step eventually takes one: the route handler,
\* the orchestrator, the two workers, the boundary coroutine and a /cleanup
\* handler past its first await.  A thread waiting for the registry lock gets
\* it eventually, however often the lock is taken by others.  Requests,
\* disconnects and exceptions are not forced to happen.
Fairness ==
    /\ WF_vars(transcribe_video_streaming)
    /\ WF_vars(Orchestrator)
    /\ WF_vars(Producer)
    /\ WF_vars(TranslationWorker)
    /\ WF_vars(Boundary)
    /\ WF_vars(E_cleanup_task_events \/ E_cleanup_task_queue)
    /\ SF_vars(O_register)
    /\ SF_vars(O_cleanup_task_events)
    /\ SF_vars(B_finally)

\* Termination does not depend on the history of a run, so the fair system
\* is explored without it.
FairSpec == InitNoHistory /\ [][Next]_<<vars, extVars>> /\ Fairness

\* The same system when no DELETE /cleanup request is made.
NextNoCleanup ==
    \/ transcribe_video_streaming
    \/ Orchestrator
    \/ Producer
    \/ P_raise
    \/ TranslationWorker
    \/ Boundary
    \/ B_disconnect
    \/ cancel_task_endpoint

FairSpecNoCleanup == Init /\ [][NextNoCleanup]_<<vars, extVars>> /\ Fairness

\* ================================================================ claims
StatusLines == {i \in 1..Len(lines) : IsStatus(lines[i])}
ResultLines == {i \in 1..Len(lines) : IsResult(lines[i])}
StreamEnded == bpc \in {"finally", "done"}
EndedNaturally == ended = "stop_signal"
ErrorLineEmitted == \E i \in 1..Len(lines) : lines[i].status = "error"
CancelledLineEmitted == \E i \in 1..Len(lines) : lines[i].status = "cancelled"
TerminalMarkers ==
    (IF EndedNaturally THEN 1 ELSE 0) + (IF ErrorLineEmitted THEN 1 ELSE 0)
    + (IF CancelledLineEmitted THEN 1 ELSE 0)

\* C1 (as stated): the emitted lines hold at most one status line, it is the
\* last line, and once the stream has ended exactly one of {ended on the
\* sentinel, error line, cancelled line} has occurred.
C1_ExactlyOneTerminal ==
    /\ Cardinality(StatusLines) <= 1
    /\ \A i \in StatusLines : i = Len(lines)
    /\ StreamEnded => TerminalMarkers = 1

\* C1 (amended): at most one status line, always the last line; a stream the
\* boundary ends itself has exactly one terminal marker, and a stream the
\* client disconnects from has none.
C1_ExactlyOneTerminalUnlessDisconnected ==
    /\ Cardinality(StatusLines) <= 1
    /\ \A i \in StatusLines : i = Len(lines)
    /\ StreamEnded /\ ended # "disconnect" => TerminalMarkers = 1
    /\ StreamEnded /\ ended = "disconnect" => TerminalMarkers = 0

\* C1 witness: a stream that delivered a result line and then ended on one
\* status line.
C1_Witness ==
    /\ bpc = "done"
    /\ Len(lines) >= 2
    /\ IsResult(lines[1])
    /\ IsStatus(lines[Len(lines)])

\* The indices of the result records of a sequence of items, in order.
ResultIndices(items) ==
    LET rs == SelectSeq(items, IsResult) IN [i \in 1..Len(rs) |-> rs[i].index]

Contiguous(ix) == \A i \in 1..Len(ix) : ix[i] = i - 1

\* The result records put on the orchestrator's client queue so far: those
\* the boundary has yielded (when it drains that queue) and those still queued.
PushedToClient ==
    IF o_queue = NoEntry THEN <<>>
    ELSE IF o_queue = client_output_queue
    THEN ResultIndices(lines) \o ResultIndices(queue[o_queue])
    ELSE ResultIndices(queue[o_queue])

\* C2: with translation disabled the result lines carry the indices 0,1,...,k
\* with k <= N-1, in that order, without duplicate or gap.
C2_OrderingDirect ==
    ~enable_translation =>
        /\ Contiguous(ResultIndices(lines))
        /\ Len(ResultIndices(lines)) <= nRecords

\* C2 witness: a cancelled direct stream that delivered two records in order.
C2_Witness ==
    /\ ~enable_translation
    /\ bpc = "done"
    /\ Len(lines) = 3
    /\ ResultIndices(lines) = <<0, 1>>
    /\ lines[3].status = "cancelled"

\* C3: with translation enabled the translation worker puts records on the
\* client queue in the order it took them from the intermediate queue, and
\* the result lines carry increasing indices with records missing only at
\* the tail.
C3_OrderingTranslated ==
    enable_translation =>
        /\ Contiguous(ResultIndices(lines))
        /\ Contiguous(PushedToClient)
        /\ tpc = "put" => segment_to_translate.index = Len(PushedToClient)
        /\ tpc \in {"check", "get", "put"} =>
             \A i \in 1..Len(ResultIndices(tq)) :
                ResultIndices(tq)[i] =
                    Len(PushedToClient) + (IF tpc = "put" THEN 1 ELSE 0) + i - 1

\* C3 witness: a translated stream cut short by a cancellation after its
\* first record, the worker holding a later record.
C3_Witness ==
    /\ enable_translation
    /\ ResultIndices(lines) = <<0>>
    /\ CancelledLineEmitted
    /\ segment_idx_counter = 2

\* No cancel and no cleanup was requested, the client is connected, the audio
\* was extracted and neither the model loader nor the transcriber raised.
HappyPath ==
    /\ ~hist.cancelCalled
    /\ ~hist.cleanupCalled
    /\ ~hist.disconnected
    /\ ~hist.raised
    /\ hist.audio \in {"unset", "loaded"}

AllRecords == [i \in 1..nRecords |-> i - 1]

\* C4: on the happy path no status line is ever emitted, and when the stream
\* has ended it ended on the sentinel after exactly the N result lines
\* 0..N-1, in order.
C4_CompleteDelivery ==
    HappyPath =>
        /\ StatusLines = {}
        /\ Contiguous(ResultIndices(lines))
        /\ StreamEnded => EndedNaturally /\ ResultIndices(lines) = AllRecords

\* C4 witness: a happy run over two records, the stream closed, the teardown
\* cancel issued and the orchestrator returned.
C4_Witness ==
    /\ HappyPath
    /\ nRecords = 2
    /\ bpc = "done"
    /\ hist.teardownCancel
    /\ opc = "returned"
    /\ Len(lines) = 2

C5_WitnessNaturalEnd ==
    /\ bpc = "done"
    /\ hist.cancelMidStream
    /\ ~hist.cleanupCalled /\ ~hist.disconnected /\ ~hist.raised
    /\ hist.resultAfterCancel
    /\ EndedNaturally

\* C6: the producer puts at most one record on its target queue after its
\* cancel event was set, and so does the translation worker on the client
\* queue; a producer that tested the set event puts nothing more.
C6_NoPushAfterCancel ==
    /\ hist.prodAfter <= 1
    /\ hist.transAfter <= 1
    /\ hist.prodAfter = 1 => ppc \in {"iterate", "put_stop", "put_error", "done"}
    /\ hist.transAfter = 1 => tpc \in {"check", "put_stop", "done"}

\* C6 witness: the event was set while the producer held a record; the record
\* was put and the producer stopped short of the remaining records.
C6_Witness ==
    /\ hist.prodAfter = 1
    /\ ppc = "done"
    /\ segment_idx_counter < nRecords
    /\ ~hist.raised

\* C7: under fair scheduling the boundary loop of every task eventually
\* stops.
C7_ResponseTerminates == <>StreamEnded

\* C7 witness: the loop stopped on a status line or on the cancel flag in a
\* run in which the transcriber raised, the first Event was set, a /cleanup
\* removed the task and the orchestrator registered it anew.
C7_Witness ==
    /\ StreamEnded
    /\ ended \in {"status_record", "cancelled_by_server"}
    /\ hist.raised
    /\ event[1]
    /\ allocated = 2

\* The worker threads run and their cancel event is set.
CancelledWhileRunning ==
    /\ o_event # NoEntry
    /\ event[o_event]
    /\ ppc \notin {"not_started", "done"}

\* Both workers have returned, the orchestrator has run cleanup_task and the
\* scratch directory is gone (or its removal failed).
PipelineTornDown ==
    /\ ppc = "done"
    /\ enable_translation => tpc = "done"
    /\ opc = "returned"
    /\ output_folder => hist.rmtreeFailed

\* C8 (as stated): once the cancel event is set while the workers run, the
\* workers eventually exit and the orchestrator eventually cleans up.
C8_CancellationReachesEveryStage == CancelledWhileRunning ~> PipelineTornDown

\* The text a translated record with index i must carry.
ExpectedText(i) ==
    IF i \in hist.failedAt THEN "[Translation Error] text" ELSE "translated"

\* C9: with translation enabled on the happy path, failed translations never
\* produce a status line, every result line carries its translation or, for
\* the records whose translation failed, the error marker, and a stream that
\* has ended ended on the sentinel after all N records in order.
C9_TranslationIsolation ==
    enable_translation /\ HappyPath =>
        /\ StatusLines = {}
        /\ Contiguous(ResultIndices(lines))
        /\ \A i \in 1..Len(lines) : lines[i].text = ExpectedText(lines[i].index)
        /\ StreamEnded => EndedNaturally /\ ResultIndices(lines) = AllRecords

\* C9 witness: of two records the translation of the first failed and that
\* of the second succeeded, and the stream ended after both.
C9_Witness ==
    /\ enable_translation /\ HappyPath
    /\ bpc = "done"
    /\ hist.failedAt = {0}
    /\ Len(lines) = 2
    /\ lines[1].text = "[Translation Error] text"
    /\ lines[2].text = "translated"

\* The records in the pipeline after the producer, in pipeline order: put on
\* the client queue, held by the translation worker, on the intermediate queue.
InPipeline ==
    PushedToClient
    \o (IF tpc = "put" THEN <<segment_to_translate.index>> ELSE <<>>)
    \o ResultIndices(tq)

\* While the cancel event is clear: the intermediate queue never holds more
\* than its capacity and no record the producer generated is dropped or
\* overwritten (the records in the pipeline are exactly 0..counter-1, in
\* order, and all of them are on the client side once the worker returned).
NoRecordLost ==
    /\ Len(tq) <= DEFAULT_TRANSCRIPTION_QUEUE_SIZE
    /\ (enable_translation /\ o_event # NoEntry /\ ~event[o_event]) =>
          /\ tpc \in {"check", "get", "put"} =>
                InPipeline = [i \in 1..segment_idx_counter |-> i - 1]
          /\ tpc = "done" =>
                PushedToClient = [i \in 1..segment_idx_counter |-> i - 1]

\* A cancel was requested (by POST /cancel, by POST /cleanup or by the
\* boundary's teardown) or the cancel event the workers were handed is set.
CancelRequested ==
    \/ hist.cancelCalled \/ hist.cleanupCalled \/ hist.teardownCancel
    \/ (o_event # NoEntry /\ event[o_event])

\* Some record the producer generated has not been put on the client queue.
RecordsInFlight ==
    enable_translation /\ Len(PushedToClient) < segment_idx_counter

\* C10: the intermediate queue never exceeds its capacity, a full queue makes
\* the producer wait rather than drop or overwrite a record, and unless a
\* cancel is requested every record the producer generated is eventually put
\* on the client queue.
C10_Backpressure ==
    /\ []NoRecordLost
    /\ RecordsInFlight ~> (~RecordsInFlight \/ CancelRequested)

\* C10 witness: the intermediate queue is full of records and the producer
\* waits in put with the next record in hand.
C10_Witness ==
    /\ enable_translation
    /\ o_event # NoEntry
    /\ ~CancelRequested
    /\ Len(tq) = DEFAULT_TRANSCRIPTION_QUEUE_SIZE
    /\ \A i \in 1..Len(tq) : IsResult(tq[i])
    /\ ppc = "put"
    /\ segment_idx_counter >= DEFAULT_TRANSCRIPTION_QUEUE_SIZE

\* C11: the producer has put exactly one STOP_SIGNAL when it has returned
\* and none before, and it never puts an item after a STOP_SIGNAL: the
\* sentinel is the last item it puts, once, on every path to its return.
C11_ProducerSentinelOnce ==
    /\ hist.prodStops = (IF ppc = "done" THEN 1 ELSE 0)
    /\ ~hist.prodAfterStop
    /\ (ppc = "done" /\ enable_translation /\ tq # <<>>) => tq[Len(tq)] = STOP_SIGNAL

\* C11 witnesses, one for each exit path of the producer: the transcriber
\* raised after the first record; the transcriber was exhausted; the cancel
\* event was observed; the audio was empty.
C11_Witness ==
    /\ ppc = "done"
    /\ hist.raised
    /\ segment_idx_counter = 1
    /\ hist.prodStops = 1

C11_WitnessExhausted ==
    /\ ppc = "done" /\ ~hist.raised
    /\ nRecords > 0 /\ segment_idx_counter = nRecords
    /\ ~event[o_event]

C11_WitnessCancelled ==
    /\ ppc = "done" /\ ~hist.raised /\ hist.audio = "loaded"
    /\ segment_idx_counter < nRecords

C11_WitnessEmptyAudio ==
    /\ ppc = "done" /\ hist.audio = "empty" /\ segment_idx_counter = 0

\* C12: the translation worker has put exactly one STOP_SIGNAL on the client
\* queue when it has returned and none before, and it never puts a record
\* after a STOP_SIGNAL.
C12_TranslatorSentinelOnce ==
    /\ hist.transStops = (IF tpc = "done" THEN 1 ELSE 0)
    /\ ~hist.transAfterStop

\* C12 witnesses: the worker returned after an error record; after the
\* producer's sentinel; after observing the cancel event.
C12_Witness ==
    /\ tpc = "done"
    /\ hist.transStops = 1
    /\ segment_to_translate.status = "error"
    /\ ~event[o_event]

C12_WitnessSentinel ==
    /\ tpc = "done" /\ ~hist.raised /\ hist.audio = "loaded" /\ ~event[o_event]
    /\ nRecords > 0 /\ Len(PushedToClient) = nRecords

C12_WitnessCancelled ==
    /\ tpc = "done" /\ event[o_event] /\ ppc \notin {"done"}

\* The translation worker has returned with fewer records put on the client
\* queue than the producer placed on the intermediate queue.
RecordsDropped ==
    /\ enable_translation
    /\ tpc = "done"
    /\ Len(PushedToClient) < segment_idx_counter

CleanupTaskEntered == cancel_events_lock = "free" /\ cancel_events_lock' # "free"
CleanupTaskLeft == cancel_events_lock # "free" /\ cancel_events_lock' = "free"

\* A thread about to call cleanup_task can always make the call once the
\* lock is free, whatever the registry holds: the call raises nothing.
CleanupTaskNeverFails ==
    /\ (epc = "cleanup_task" /\ cancel_events_lock = "free")
          => ENABLED E_cleanup_task_events
    /\ (opc = "cleanup_task" /\ cancel_events_lock = "free")
          => ENABLED O_cleanup_task_events
    /\ epc = "cleanup_task_queue" => ENABLED E_cleanup_task_queue
    /\ opc = "cleanup_task_queue" => ENABLED O_cleanup_task_queue

\* C14: cleanup_task never fails; when it returns neither map holds an entry
\* for the task; and a call made when neither map holds one changes nothing
\* (no map, no Event, no Queue content).
C14_IdempotentCleanup ==
    /\ []CleanupTaskNeverFails
    /\ [][/\ CleanupTaskEntered =>
               /\ cancel_events' = NoEntry
               /\ UNCHANGED <<segment_queues, allocated, queue, event>>
          /\ CleanupTaskLeft =>
               /\ segment_queues' = NoEntry
               /\ cancel_events = NoEntry /\ cancel_events' = NoEntry
               /\ UNCHANGED <<allocated, event>>
               /\ segment_queues = NoEntry => queue' = queue
               /\ segment_queues # NoEntry =>
                    queue' = [queue EXCEPT ![segment_queues] =
                                IF Len(@) < DEFAULT_OUTPUT_QUEUE_SIZE
                                THEN @ \o <<STOP_SIGNAL>> ELSE @]]_vars

\* C14 witness: the /cleanup endpoint's cleanup_task has returned, no entry
\* was created since, and the orchestrator is inside its own cleanup_task
\* with nothing left to remove.
C14_Witness ==
    /\ hist.cleanupCalled
    /\ epc = "idle"
    /\ allocated = 1
    /\ opc = "cleanup_task_queue"
    /\ segment_queues = NoEntry
    /\ cancel_events = NoEntry

\* The Event the route handler's register_task returned: the first one
\* created for the task.
client_cancel_event == 1

\* With no /cleanup request, one pair was created and the orchestrator's
\* register_task returned that pair (and did return); no queue ever holds
\* more than its capacity.
SamePairReturned ==
    /\ ~hist.cleanupCalled =>
          /\ allocated <= 1
          /\ opc # "crashed"
          /\ o_queue # NoEntry =>
                o_queue = client_output_queue /\ o_event = client_cancel_event
    /\ \A i \in ObjIds : Len(queue[i]) <= DEFAULT_OUTPUT_QUEUE_SIZE

\* C15: a pair is created only when the registry holds none for the task,
\* and it is an empty queue and a clear flag; a register_task call that
\* finds the task registered changes no map, no flag and no queue content,
\* and returns the pair the first call returned.
C15_RegisterIdempotent ==
    /\ []SamePairReturned
    /\ [][/\ allocated' # allocated =>
               /\ segment_queues = NoEntry /\ cancel_events = NoEntry
               /\ allocated' = allocated + 1
               /\ segment_queues' = allocated' /\ cancel_events' = allocated'
               /\ queue'[allocated'] = <<>> /\ ~event'[allocated']
          /\ (opc = "register" /\ opc' # opc /\ segment_queues # NoEntry) =>
               UNCHANGED <<segment_queues, cancel_events, allocated, queue, event>>
         ]_vars

\* C15 witness: the orchestrator's register_task returned the route
\* handler's pair, whose flag is set and whose queue is not empty.
C15_Witness ==
    /\ ~hist.cleanupCalled
    /\ opc = "load_audio"
    /\ allocated = 1
    /\ o_queue = client_output_queue /\ o_event = client_cancel_event
    /\ event[client_cancel_event]

\* A step in which cancel_task is called: by POST /cancel (the first one
\* served), by the boundary's teardown, or by DELETE /cleanup for a task that
\* does not read as cancelled.
CancelTaskCalled ==
    \/ ~hist.cancelCalled /\ hist'.cancelCalled
    \/ ~hist.teardownCancel /\ hist'.teardownCancel
    \/ epc = "idle" /\ epc' = "cleanup_task" /\ ~is_cancelled

\* C16: cancel_task can be called whenever the lock is free; it sets the
\* flag the registry holds for the task and nothing else, and with no entry
\* for the task it changes nothing: no map, no lock, no queue content, no
\* other Event.  No step other than a cancel_task changes an Event.
C16_CancelFrame ==
    /\ []((rpc = "streaming" /\ cancel_events_lock = "free")
             => ENABLED cancel_task_endpoint)
    /\ [][/\ CancelTaskCalled =>
               /\ cancel_events # NoEntry =>
                     event' = [event EXCEPT ![cancel_events] = TRUE]
               /\ cancel_events = NoEntry => event' = event
               /\ UNCHANGED <<segment_queues, cancel_events, cancel_events_lock,
                              allocated, queue>>
          /\ event' # event =>
               /\ cancel_events # NoEntry
               /\ event' = [event EXCEPT ![cancel_events] = TRUE]
               /\ UNCHANGED <<segment_queues, cancel_events, cancel_events_lock,
                              allocated, queue>>
         ]_vars

\* C16 witness: POST /cancel was served only when the registry held no entry
\* for the task (after the orchestrator's cleanup), and nothing was set or
\* created.
C16_Witness ==
    /\ hist.cancelCalled
    /\ opc = "returned"
    /\ cancel_events = NoEntry /\ segment_queues = NoEntry
    /\ allocated = 1
    /\ \A i \in ObjIds : ~event[i]

\* C17: the boundary's is_cancelled call completes whoever holds the
\* registry lock; it returns true (the boundary emits its 'cancelled' line)
\* exactly when the registry holds an Event for the task and that Event is
\* set, hence false for a task without entry; and the call changes no map,
\* no lock, no Event and no queue.
C17_IsCancelled ==
    /\ [](bpc = "check" => ENABLED B_check)
    /\ [][(bpc = "check" /\ bpc' # "check" /\ ended' # "disconnect") =>
            /\ (ended' = "cancelled_by_server")
                  <=> (cancel_events # NoEntry /\ event[cancel_events])
            /\ (bpc' = "get")
                  <=> (cancel_events = NoEntry \/ ~event[cancel_events])
            /\ UNCHANGED <<regVars, event, queue>>
         ]_vars

\* C17 witness: the boundary yielded a record after /cancel had set the flag
\* and then, while the first cleanup_task for the task held the lock and had
\* removed the flag from the registry, called is_cancelled, which returned
\* false: the boundary went on to its next get.
C17_Witness ==
    /\ hist.resultAfterCancel
    /\ bpc = "get"
    /\ allocated = 1
    /\ event[client_cancel_event]
    /\ cancel_events = NoEntry
    /\ segment_queues # NoEntry
    /\ cancel_events_lock # "free"

\* C18 (as stated): the first POST /cancel served answers with the success
\* message when the registry holds the task and with an error payload when
\* it does not; a POST /cancel for a task whose flag is set changes nothing.
C18_CancelResponse ==
    [][/\ (~hist.cancelCalled /\ hist'.cancelCalled) =>
            hist'.cancelResponse =
                (IF cancel_events # NoEntry THEN "message" ELSE "error")
       /\ (~hist.cancelCalled /\ hist'.cancelCalled
              /\ cancel_events # NoEntry /\ event[cancel_events]) =>
            UNCHANGED <<regVars, event, queue>>
      ]_vars

\* The orchestrator thread has ended (it returned, or died in register_task).
OrchestratorFinished == opc \in {"returned", "crashed"}

\* Nothing is left of the task on the server.
NoBookkeeping ==
    segment_queues = NoEntry /\ cancel_events = NoEntry /\ ~output_folder

C19_WitnessCrashed ==
    /\ hist.cleanupCalled
    /\ epc = "idle"
    /\ opc = "crashed"
    /\ NoBookkeeping

\* C20 (as stated): when the orchestrator enters its finally clause (whose
\* cleanup_task puts the sentinel) with its cancel event set, a 'cancelled'
\* status record is on the client queue.
C20_CancelledBeforeSentinel ==
    [][(opc # "finally" /\ opc' = "finally" /\ event[o_event]) =>
          \E i \in 1..Len(queue'[o_queue]) :
              queue'[o_queue][i].status = "cancelled"
      ]_vars

\* A worker thread of the task has been started and has not returned.
WorkerRunning ==
    \/ ppc \notin {"not_started", "done"}
    \/ tpc \notin {"not_started", "done"}

\* C21 (as stated): while a worker thread of the task runs, the registry
\* holds the task's cancel flag.
C21_FlagKeptWhileWorkersRun == WorkerRunning => cancel_events # NoEntry

\* C22 (as stated): the orchestrator starts no worker thread when its cancel
\* event is set at the end of audio extraction or of model loading, and its
\* cancellation handling leaves a 'cancelled' record followed by the
\* sentinel at the end of the client queue.
C22_CancelCheckAfterEachStep ==
    [][/\ (opc \in {"check_cancel", "get_model"} /\ opc' # opc /\ event[o_event]) =>
            ppc' = "not_started" /\ tpc' = "not_started"
       /\ (opc = "handle_cancellation" /\ opc' # opc) =>
            /\ Len(queue'[o_queue]) >= 2
            /\ SubSeq(queue'[o_queue], Len(queue'[o_queue]) - 1, Len(queue'[o_queue]))
                  = <<CancelledDuringSetup, STOP_SIGNAL>>
      ]_vars

\* The step in which an except clause of process_video_with_streaming runs
\* _finalize_task for a task that is still registered and not cancelled.
ExceptClauseRuns ==
    /\ opc \in {"except_ValueError", "except_Exception"}
    /\ opc' = "finally"
    /\ segment_queues # NoEntry
    /\ ~is_cancelled

\* C23 (as stated): process_video_with_streaming never lets an exception
\* reach its caller, and an except clause that runs for a registered task
\* that is not cancelled puts exactly one 'error' record on the client queue
\* and goes on to the cleanup of the finally clause.
C23_NoExceptionEscapes ==
    [][/\ opc' # "crashed"
       /\ ExceptClauseRuns =>
            /\ Len(queue'[segment_queues]) = Len(queue[segment_queues]) + 1
            /\ SubSeq(queue'[segment_queues], 1, Len(queue[segment_queues]))
                  = queue[segment_queues]
            /\ queue'[segment_queues][Len(queue'[segment_queues])].status = "error"
      ]_vars

\* The part of C23 about the except clauses alone.
C23_ExceptClauses ==
    [][ExceptClauseRuns =>
            /\ Len(queue'[segment_queues]) = Len(queue[segment_queues]) + 1
            /\ queue'[segment_queues][Len(queue'[segment_queues])].status = "error"
      ]_vars

\* C24: the orchestrator returns only out of cleanup_task, whichever way it
\* came to its finally clause; once it has returned the registry holds
\* neither queue nor flag of the task and the scratch folder is gone unless
\* its removal failed; and the step removing the folder, failed or not, goes
\* on to cleanup_task and puts nothing on any queue.
C24_TeardownOnEveryPath ==
    /\ [](opc = "returned" =>
            /\ segment_queues = NoEntry /\ cancel_events = NoEntry
            /\ output_folder => hist.rmtreeFailed)
    /\ [][/\ (opc # "returned" /\ opc' = "returned") =>
               opc = "cleanup_task_queue" /\ cancel_events_lock = "orch"
          /\ (opc = "finally" /\ opc' # opc) =>
               opc' = "cleanup_task" /\ queue' = queue /\ tq' = tq
         ]_vars

\* C24 witness: the removal of the scratch folder failed in the finally
\* clause, and the orchestrator has returned with the registry emptied by its
\* own cleanup_task (no DELETE /cleanup was served).
C24_Witness ==
    /\ opc = "returned"
    /\ output_folder /\ hist.rmtreeFailed
    /\ ~hist.cleanupCalled
    /\ segment_queues = NoEntry /\ cancel_events = NoEntry

\* The four ways into the finally clause, each ending in a return with an
\* empty registry: normal completion, cancellation during setup, failed audio
\* load, failed model load.
C24_WitnessNormal ==
    /\ opc = "returned" /\ ~hist.cleanupCalled /\ ~hist.cancelCalled
    /\ ~hist.teardownCancel /\ ~hist.raised /\ hist.audio = "loaded"
    /\ ppc = "done" /\ hist.failedAt = {}
    /\ segment_queues = NoEntry /\ ~output_folder

C24_WitnessCancelledEarly ==
    /\ opc = "returned" /\ ~hist.cleanupCalled /\ hist.cancelCalled
    /\ ppc = "not_started" /\ hist.audio = "loaded"
    /\ segment_queues = NoEntry /\ ~output_folder

C24_WitnessAudioFailed ==
    /\ opc = "returned" /\ ~hist.cleanupCalled /\ hist.audio = "None"
    /\ ppc = "not_started"
    /\ segment_queues = NoEntry /\ ~output_folder

\* The raw audio could not be loaded and nothing cancelled the task: no
\* POST /cancel, no DELETE /cleanup, and the client stayed connected.
AudioLoadFailed ==
    /\ hist.audio = "None"
    /\ ~hist.cancelCalled /\ ~hist.cleanupCalled /\ ~hist.disconnected

\* The record the except clause for ValueError builds from the exception.
AudioLoadError ==
    StatusRecord("error", "Failed to load raw audio data for processing.", -1)

\* C25: after a failed audio load of a task that is not cancelled no worker
\* thread is ever started, the orchestrator goes from the except clause
\* straight through its finally clause, all the client queue ever receives
\* is one 'error' record and then STOP_SIGNAL, and the client reads that
\* record as its only line.
C25_InputErrorSurfacedOnce ==
    AudioLoadFailed =>
        /\ ppc = "not_started" /\ tpc = "not_started"
        /\ opc \in {"except_ValueError", "finally", "cleanup_task",
                    "cleanup_task_queue", "returned"}
        /\ ended \in {"no", "status_record"}
        /\ lines \o queue[client_output_queue] =
              IF opc = "except_ValueError" THEN <<>>
              ELSE IF opc = "returned" THEN <<AudioLoadError, STOP_SIGNAL>>
              ELSE <<AudioLoadError>>
        /\ lines \in {<<>>, <<AudioLoadError>>}
        /\ bpc \in {"finally", "done"} => lines = <<AudioLoadError>>

\* C25 witness: the orchestrator has returned after a failed audio load, the
\* client has read the error line and the stream is closed; the sentinel is
\* what is left on the queue.
C25_Witness ==
    /\ AudioLoadFailed
    /\ opc = "returned" /\ bpc = "done"
    /\ lines = <<AudioLoadError>>
    /\ queue[client_output_queue] = <<STOP_SIGNAL>>

\* The transcriber raised and nothing cancelled the task before the client
\* read the outcome: no POST /cancel, no DELETE /cleanup, no disconnect.
TranscriberRaised ==
    /\ hist.raised /\ ppc # "not_started"
    /\ ~hist.cancelCalled /\ ~hist.cleanupCalled /\ ~hist.disconnected

\* The record the producer's except clause builds after j segments.
TranscriptionError(j) == StatusRecord("error", "Transcription process failed", j)

\* A sequence of items with every segment reduced to its index; status
\* records and the sentinel are kept whole.
Stripped(items) ==
    [k \in DOMAIN items |->
        IF items[k].status = "none" THEN items[k].index ELSE items[k]]

\* The item the translation worker holds between its get and its put.
TranslatorHolds ==
    IF tpc \in {"put", "put_error"} THEN <<segment_to_translate>> ELSE <<>>

\* Everything the producer has put so far, in order, as far as it is still
\* in the pipeline or with the client: the lines, the client queue and, with
\* translation, the worker's item in hand and the intermediate queue.
Downstream ==
    lines \o queue[client_output_queue]
          \o (IF enable_translation THEN TranslatorHolds \o tq ELSE <<>>)

\* C26: when the transcriber raises after j segments, the producer's output
\* is the segments 0..j-1, one error record with index j and the sentinel;
\* the translation worker passes the error record on as it is, then only its
\* own sentinel; and the client's stream ends on the lines 0..j-1 followed
\* by that error record.  The only other item is the sentinel cleanup_task
\* offers once the orchestrator has joined the workers.
C26_TranscriptionErrorPropagates ==
    TranscriberRaised =>
        /\ ppc \in {"put_error", "put_stop", "done"}
        /\ \E cleanup \in (IF opc = "returned" THEN {<<>>, <<STOP_SIGNAL>>}
                            ELSE {<<>>}) :
              Stripped(Downstream) =
                 [i \in 1..segment_idx_counter |-> i - 1]
                 \o (IF ppc = "put_error" THEN <<>>
                     ELSE <<TranscriptionError(segment_idx_counter)>>)
                 \o (IF enable_translation /\ tpc = "done" THEN <<STOP_SIGNAL>> ELSE <<>>)
                 \o (IF ppc = "done" THEN <<STOP_SIGNAL>> ELSE <<>>)
                 \o cleanup
        /\ ended \in {"no", "status_record"}
        /\ bpc \in {"finally", "done"} =>
              Stripped(lines) = [i \in 1..segment_idx_counter |-> i - 1]
                                \o <<TranscriptionError(segment_idx_counter)>>

\* C26 witness: with translation enabled the transcriber raised after its
\* first segment; both workers have returned and the client has read the
\* segment and the error record.
C26_Witness ==
    /\ TranscriberRaised
    /\ enable_translation
    /\ segment_idx_counter = 1
    /\ ppc = "done" /\ tpc = "done" /\ bpc = "done"
    /\ Len(lines) = 2
    /\ lines[2] = TranscriptionError(1)

\* The same without translation.
C26_WitnessNoTranslation ==
    /\ TranscriberRaised
    /\ ~enable_translation
    /\ segment_idx_counter = 1
    /\ ppc = "done" /\ bpc = "done"
    /\ lines = <<segment_data(0), TranscriptionError(1)>>

\* C27 (as stated): the translation worker tests the cancel event again
\* after translate_segment, so it never puts a record on the client queue
\* while its cancel event is set.
C27_NoPutAfterTranslate ==
    [][(tpc = "put" /\ tpc' # tpc) => ~event[o_event]]_vars

\* C28: when the teardown of the streaming boundary finishes and the
\* registry holds a cancel flag for the task, that flag is set, however the
\* stream came to its end.
C28_TeardownCancels ==
    [][(bpc = "finally" /\ bpc' = "done" /\ cancel_events' # NoEntry) =>
          event'[cancel_events']]_vars

\* C28 witness: the client disconnected from a task nobody had cancelled;
\* the teardown has set the flag of the still registered task.
C28_Witness ==
    /\ bpc = "done"
    /\ ended = "disconnect"
    /\ hist.teardownCancel /\ ~hist.cancelCalled /\ ~hist.cleanupCalled
    /\ cancel_events # NoEntry
    /\ event[cancel_events]

\* The same after a stream that ended on the sentinel and after one that
\* ended on a status record.
C28_WitnessSentinel ==
    /\ bpc = "done"
    /\ ended = "stop_signal"
    /\ hist.teardownCancel /\ ~hist.cancelCalled /\ ~hist.cleanupCalled
    /\ cancel_events # NoEntry
    /\ event[cancel_events]

C28_WitnessStatusRecord ==
    /\ bpc = "done"
    /\ ended = "status_record"
    /\ hist.teardownCancel
    /\ cancel_events # NoEntry
    /\ event[cancel_events]

\* The part of C29 about runs without an error: when the audio is loaded and
\* neither the model loader nor the transcriber raises, no line with status
\* 'error' reaches the client.
C29_NoErrorLineWithoutError ==
    (~hist.raised /\ hist.audio \in {"unset", "loaded"}) =>
        \A k \in DOMAIN lines : lines[k].status # "error"

\* C29 (as stated): without an error no 'error' line reaches the client, and
\* an except clause of the orchestrator that runs with the task's cancel
\* event set puts no 'error' record on the client queue.
C29_CancelledNotError ==
    /\ [] C29_NoErrorLineWithoutError
    /\ [][(/\ opc \in {"except_ValueError", "except_Exception"}
           /\ opc' = "finally"
           /\ event[o_event]) =>
              \A q \in ObjIds : \A k \in DOMAIN queue'[q] :
                  queue'[q][k].status = "error" =>
                      k \in DOMAIN queue[q] /\ queue[q][k] = queue'[q][k]
         ]_vars

\* cleanup_task is at its put of the sentinel and the task's queue is full.
CleanupMeetsFullQueue ==
    /\ cancel_events_lock # "free"
    /\ segment_queues # NoEntry
    /\ Len(queue[segment_queues]) = DEFAULT_OUTPUT_QUEUE_SIZE

\* C30: a cleanup_task that finds the task's queue full goes on at once: the
\* caller's next step is enabled, it leaves every queue as it was, removes
\* the queue from the registry (the flag is gone already), releases the lock
\* and returns to its caller.
C30_CleanupNeverBlocks ==
    /\ [](CleanupMeetsFullQueue =>
            /\ cancel_events_lock = "orch" => ENABLED O_cleanup_task_queue
            /\ cancel_events_lock = "endpoint" => ENABLED E_cleanup_task_queue)
    /\ [][(CleanupMeetsFullQueue /\ cancel_events_lock' = "free") =>
            /\ queue' = queue
            /\ segment_queues' = NoEntry /\ cancel_events' = NoEntry
            /\ cancel_events_lock = "orch" => opc' = "returned"
            /\ cancel_events_lock = "endpoint" => epc' = "idle"
         ]_vars

\* C30 witness: without translation and without a DELETE /cleanup, the
\* orchestrator has returned while the client queue is full of what the
\* producer put, its sentinel last: the sentinel of cleanup_task was dropped.
C30_Witness ==
    /\ opc = "returned" /\ ppc = "done"
    /\ ~hist.cleanupCalled
    /\ ~enable_translation
    /\ ended # "stop_signal"
    /\ Len(queue[client_output_queue]) = DEFAULT_OUTPUT_QUEUE_SIZE
    /\ queue[client_output_queue][1] # STOP_SIGNAL
    /\ segment_queues = NoEntry /\ cancel_events = NoEntry

\* Two calls of get_model overlap: both threads are inside the method.
ConcurrentCalls == \A c \in Callers : gpc[c] # "idle"

\* C31 (as stated): when get_model is only ever called with one
\* configuration, load_whisper_model builds at most one model and all
\* callers are handed that same model; and a call that finds its
\* configuration cached returns without loading.
C31_LoadedAtMostOnce ==
    /\ Cardinality(g_requested) = 1 =>
          /\ models_loaded <= 1
          /\ \A c, d \in Callers :
                (g_result[c] # 0 /\ g_result[d] # 0) => g_result[c] = g_result[d]
    /\ \A c \in Callers :
          (gpc[c] = "load" /\ whisper_model # 0) => current_config # g_config[c]

\* C32: no step changes segment_queues or cancel_events while another
\* thread holds cancel_events_lock through the step (the maps change only in
\* steps that take the lock, release it, or hold it within the step), and
\* whenever the lock is free the task has a queue if and only if it has a
\* cancel flag.
C32_RegistryConsistency ==
    /\ [](cancel_events_lock = "free" =>
            (segment_queues = NoEntry <=> cancel_events = NoEntry))
    /\ [][(segment_queues' # segment_queues \/ cancel_events' # cancel_events) =>
             (cancel_events_lock = "free" \/ cancel_events_lock' = "free")]_vars

\* C32 witness: a DELETE /cleanup emptied the registry, the orchestrator
\* registered the task anew, and the lock is free with both entries present.
C32_Witness ==
    /\ cancel_events_lock = "free"
    /\ hist.cleanupCalled
    /\ allocated = 2
    /\ segment_queues = 2 /\ cancel_events = 2

\* Records the producer has put that the boundary has not yielded.
Undelivered == segment_idx_counter - Len(ResultIndices(lines))

\* C33: no queue ever holds more than its capacity; the records put by the
\* producer and not yet yielded to the client number at most the capacity of
\* the client queue, plus with translation that of the intermediate queue
\* and the one record the translation worker holds; and a step in which the
\* producer or the translation worker puts a record appends it to the queue
\* and keeps everything the queue held; a queue changes only by items appended
\* at its tail or by its reader taking its head.
C33_BoundedBuffering ==
    /\ [](/\ \A q \in ObjIds : Len(queue[q]) <= DEFAULT_OUTPUT_QUEUE_SIZE
          /\ Len(tq) <= DEFAULT_TRANSCRIPTION_QUEUE_SIZE
          /\ Undelivered <= DEFAULT_OUTPUT_QUEUE_SIZE
                + (IF enable_translation
                   THEN DEFAULT_TRANSCRIPTION_QUEUE_SIZE + 1 ELSE 0))
    /\ [][/\ (ppc = "put" /\ ppc' # ppc) =>
               IF enable_translation
               THEN tq' = Append(tq, segment_data(segment_idx_counter))
               ELSE queue'[o_queue] =
                       Append(queue[o_queue], segment_data(segment_idx_counter))
          /\ (tpc = "put" /\ tpc' # tpc) =>
               queue'[o_queue] = Append(queue[o_queue], segment_to_translate)
          /\ \A q \in ObjIds :
               \/ queue'[q] = queue[q]
               \/ /\ Len(queue'[q]) > Len(queue[q])
                  /\ SubSeq(queue'[q], 1, Len(queue[q])) = queue[q]
               \/ /\ bpc' # bpc /\ q = client_output_queue
                  /\ queue[q] # <<>> /\ queue'[q] = Tail(queue[q])
          /\ \/ tq' = tq
             \/ /\ Len(tq') = Len(tq) + 1
                /\ SubSeq(tq', 1, Len(tq)) = tq
             \/ tpc' # tpc /\ tq # <<>> /\ tq' = Tail(tq)
         ]_vars

\* C33 witness: without translation the client queue is full of records the
\* client has not read, and the producer waits with its sentinel.
C33_Witness ==
    /\ ~enable_translation
    /\ ppc = "put_stop"
    /\ lines = <<>>
    /\ Len(ResultIndices(queue[o_queue])) = DEFAULT_OUTPUT_QUEUE_SIZE
    /\ Undelivered = DEFAULT_OUTPUT_QUEUE_SIZE

\* The same with translation: the intermediate queue is full behind a
\* translation worker that holds a record.
C33_WitnessTranslation ==
    /\ enable_translation
    /\ tpc = "put"
    /\ Len(tq) = DEFAULT_TRANSCRIPTION_QUEUE_SIZE
    /\ Undelivered = DEFAULT_TRANSCRIPTION_QUEUE_SIZE + 1

\* The boundary is inside its streaming loop.
BoundaryStreaming == bpc \in {"check", "get"}

\* C36 (as stated): once is_cancelled reads true for the task it keeps
\* reading true for as long as the boundary stays in its streaming loop.
C36_CancelStaysVisible ==
    [][(is_cancelled /\ BoundaryStreaming /\ BoundaryStreaming') => is_cancelled']_vars

\* C37 (as stated): the queue the orchestrator got from register_task, onto
\* which it and its workers put, is the queue the streaming boundary drains.
C37_SingleClientQueue ==
    o_queue # NoEntry => o_queue = client_output_queue

\* C38 (as stated): the orchestrator's call of register_task returns, and
\* returns the queue and the event that the registry holds.
C38_RegisterTaskReturns ==
    [][(opc = "register_return" /\ opc' # opc) =>
          /\ opc' = "load_audio"
          /\ o_queue' # NoEntry /\ o_queue' = segment_queues
          /\ o_event' # NoEntry /\ o_event' = cancel_events
      ]_vars

HealthCheckOver == hpc \in {"returned", "raised"}

\* C34: start_server_if_needed makes at most SERVER_START_MAX_ATTEMPTS health
\* requests; a response with status 200 makes it return at that request
\* (no request follows a 200), and it returns only then (or at once when it has no server to start); it
\* raises RuntimeError after exactly SERVER_START_MAX_ATTEMPTS requests none
\* of which answered 200; and every call ends.
C34_BoundedHealthCheck ==
    /\ [](/\ health_requests <= SERVER_START_MAX_ATTEMPTS
          /\ sleeps <= health_requests
          /\ (hpc = "returned" /\ transcription_server) => status_code = 200
          /\ (hpc = "returned" /\ ~transcription_server) => health_requests = 0
          /\ hpc = "raised" =>
                /\ health_requests = SERVER_START_MAX_ATTEMPTS
                /\ status_code # 200)
    /\ [][/\ status_code' = 200 /\ health_requests' # health_requests
               => hpc' = "returned"
          /\ health_requests' # health_requests
               => (status_code # 200 /\ health_requests' = health_requests + 1)
         ]_clientVars
    /\ <>HealthCheckOver

\* C34 witnesses: the call raised after 30 requests of which some were
\* refused and some answered with another status; the call returned on the
\* 200 of its last attempt.
C34_Witness ==
    /\ hpc = "raised"
    /\ health_requests = SERVER_START_MAX_ATTEMPTS
    /\ sleeps > 0 /\ sleeps < health_requests

C34_WitnessReady ==
    /\ hpc = "returned"
    /\ status_code = 200
    /\ health_requests = SERVER_START_MAX_ATTEMPTS

\* What create_segment_jobs returns covers the video: every job has
\* start < end, the first starts at 0, each starts where the one before it
\* ends, and the last ends at video_duration.
JobsTileTheDuration ==
    jpc = "returned" =>
        /\ jobs # <<>>
        /\ \A k \in 1..Len(jobs) : jobs[k][1] < jobs[k][2]
        /\ jobs[1][1] = 0
        /\ \A k \in 1..(Len(jobs) - 1) : jobs[k][2] = jobs[k + 1][1]
        /\ jobs[Len(jobs)][2] = video_duration

\* C35 (as stated): for a sorted list of break points below the duration,
\* the point 0 and repeated points allowed, the jobs returned cover
\* [0, video_duration) without gap or overlap and their indices are
\* 0, 1, 2, ... in order.
C35_SegmentJobs ==
    /\ JobsTileTheDuration
    /\ jpc = "returned" => \A k \in 1..Len(jobs) : jobs[k][3] = k - 1

\* C39 (as stated): when stop returns, every task of its snapshot is out of
\* the registry or has its registered flag set; and stop, once it has its
\* snapshot, can always go on, whatever became of the tasks.
C39_StopCancelsEveryTask ==
    /\ [][(stop_pc # "returned" /\ stop_pc' = "returned") =>
            \A k \in 1..Len(task_ids') :
                (\E j \in 1..Len(registered') : registered'[j] = task_ids'[k])
                    => flag_set'[task_ids'[k]]
         ]_stopVars
    /\ [](stop_pc = "cancel" => ENABLED stop)

\* C40 (as stated): run emits 'finished' at most once, never in a run in
\* which it received a 'cancelled' or 'error' status line, and never once
\* stop() has been called.
C40_FinishedOnlyOnNaturalEnd ==
    /\ [](/\ finished_emits <= 1
          /\ finished_emits > 0 => status_received = "none")
    /\ [][finished_emits' # finished_emits => ~stop_called]_workerVars

\* The parts of C40 taken alone.
FinishedAtMostOnce == finished_emits <= 1
NoFinishedAfterStatusLine == finished_emits > 0 => status_received = "none"
NoFinishedAfterStop ==
    [][finished_emits' # finished_emits => ~stop_called]_workerVars

====
